---- MODULE Spec2Model ----
(***************************************************************************)
(* A model of serio (jichu4n/serio): the composable binary codecs          *)
(* (scalars, strings, buffers, arrays, records, bitmasks) and their        *)
(* serialize / deserialize / getSerializedLength / toJSON contract.        *)
(*                                                                         *)
(* A codec instance is a record tagged by cls.  An operation returns a     *)
(* record with ok = TRUE and its result, or ok = FALSE and the error it    *)
(* throws.  deserialize also returns obj, the instance after the call,     *)
(* because the code mutates the instance in place, also when it throws.    *)
(***************************************************************************)
EXTENDS Integers, Sequences, FiniteSets, TLC

VARIABLES
  obj,             \* the codec instance the operations are invoked on
  class,           \* the class of obj, given as the instance `new` constructs
  last,            \* the last operation: its name, inputs, the instance before, the result
  defaultEncoding  \* the process-wide default text encoding

vars == <<obj, class, last, defaultEncoding>>

----------------------------------------------------------------------------
(* Bounds of the model.                                                    *)

\* Longest stored sequence of an array that the model assigns.
MaxStored == 3
\* Largest fixed length N of an ofLength(N) array.
MaxFixed == 2
\* Largest length N of a string class ofLength(N).
MaxLength == 5

----------------------------------------------------------------------------
(* Sequences and bytes.                                                    *)

RECURSIVE Power2(_)
Power2(n) == IF n = 0 THEN 1 ELSE 2 * Power2(n - 1)
\* 2 ** n for 0 <= n <= 30, tabulated.
Powers2 == [n \in 0..30 |-> Power2(n)]
Pow2(n) == Powers2[n]

Min(a, b) == IF a < b THEN a ELSE b
Max(a, b) == IF a > b THEN a ELSE b

\* buffer.slice(start) / buffer.subarray(start): the bytes from offset start on.
SliceFrom(buffer, start) ==
  IF start >= Len(buffer) THEN <<>> ELSE SubSeq(buffer, start + 1, Len(buffer))

\* buffer.subarray(start, end), clamped to the buffer as Node clamps it.
Subarray(buffer, start, end) ==
  LET e == Min(end, Len(buffer))
  IN  IF start >= e THEN <<>> ELSE SubSeq(buffer, start + 1, e)

\* Buffer.alloc(n): n zero bytes.
Alloc(n) == [i \in 1..n |-> 0]

RECURSIVE Concat(_)
\* Buffer.concat(list)
Concat(list) == IF list = <<>> THEN <<>> ELSE Head(list) \o Concat(Tail(list))

RECURSIVE SumSeq(_)
\* lodash sum(list)
SumSeq(list) == IF list = <<>> THEN 0 ELSE Head(list) + SumSeq(Tail(list))

----------------------------------------------------------------------------
(* Errors.  A message is a sequence of strings, so that a prefix added by  *)
(* an enclosing codec is a concatenation.                                  *)

Error(message) == [name |-> "Error", message |-> message]
RangeError(message) == [name |-> "RangeError", message |-> message]

\* The decimal text of a small index, for messages.
IndexText(i) ==
  IF i \in 0..9 THEN <<"0", "1", "2", "3", "4", "5", "6", "7", "8", "9">>[i + 1]
  ELSE "n"

Fail(e) == [ok |-> FALSE, err |-> e]

----------------------------------------------------------------------------
(* JSON values, tagged by j.                                               *)

JNum(n) == [j |-> "num", num |-> n]
JStr(s) == [j |-> "str", str |-> s]
JBool(b) == [j |-> "bool", bool |-> b]
JArr(a) == [j |-> "arr", arr |-> a]
JBuf(b) == [j |-> "buf", data |-> b]
JNull == [j |-> "null"]

----------------------------------------------------------------------------
(* JavaScript's 32-bit integer operators.  A JavaScript number that takes  *)
(* part in |, &, << or >> is first converted with ToInt32; the model       *)
(* carries such numbers as integers in [-2^31, 2^31).                      *)

\* Bit i (0 = least significant) of the two's complement form of int32 x.
Bit(x, i) == IF i = 31 THEN (IF x < 0 THEN 1 ELSE 0) ELSE (x \div Pow2(i)) % 2

\* The low 31 bits of int32 x, and the int32 with those low bits and sign bit.
Low31(x) == IF x < 0 THEN (x + Pow2(30)) + Pow2(30) ELSE x
WithSign(low, sign) == IF sign = 1 THEN (low - Pow2(30)) - Pow2(30) ELSE low

RECURSIVE AndNat(_, _), OrNat(_, _)
\* x & y and x | y for non-negative x and y.
AndNat(x, y) ==
  IF x = 0 \/ y = 0 THEN 0
  ELSE (x % 2) * (y % 2) + 2 * AndNat(x \div 2, y \div 2)
OrNat(x, y) ==
  IF x = 0 THEN y ELSE IF y = 0 THEN x
  ELSE Max(x % 2, y % 2) + 2 * OrNat(x \div 2, y \div 2)

\* x & y
BitAnd(x, y) == WithSign(AndNat(Low31(x), Low31(y)), Bit(x, 31) * Bit(y, 31))
\* x | y
BitOr(x, y) == WithSign(OrNat(Low31(x), Low31(y)), Max(Bit(x, 31), Bit(y, 31)))
\* x << n: the shift count is taken modulo 32; bit 31 - k of x becomes the sign.
Shl(x, n) ==
  LET k == n % 32
  IN  IF k = 0 THEN x
      ELSE IF k = 31 THEN WithSign(0, Bit(x, 0))
      ELSE WithSign((x % Pow2(31 - k)) * Pow2(k), Bit(x, 31 - k))
\* x >> n: sign-propagating, the shift count is taken modulo 32.
Shr(x, n) ==
  LET k == n % 32
  IN  IF k = 31 THEN (IF x < 0 THEN -1 ELSE 0) ELSE x \div Pow2(k)

\* ToInt32(2 ** length - 1) for 0 <= length <= 53.
Int32OfMask(length) ==
  IF length >= 32 THEN -1
  ELSE IF length = 31 THEN (Pow2(30) - 1) + Pow2(30)
  ELSE Pow2(length) - 1

----------------------------------------------------------------------------
(* Options: {encoding?: string}.                                           *)

NoOpts == [hasEncoding |-> FALSE, encoding |-> ""]
WithEncoding(e) == [hasEncoding |-> TRUE, encoding |-> e]

----------------------------------------------------------------------------
(* Scalar wrappers: createSerializableScalarWrapperClass.                  *)

\* serializedLength of each scalar class.
serializedLength(kind) ==
  CASE kind \in {"SUInt8", "SInt8"} -> 1
    [] kind \in {"SUInt16BE", "SUInt16LE", "SInt16BE", "SInt16LE"} -> 2
    [] kind \in {"SUInt32BE", "SUInt32LE", "SInt32BE", "SInt32LE"} -> 4

IsSigned(kind) ==
  kind \in {"SInt8", "SInt16BE", "SInt16LE", "SInt32BE", "SInt32LE"}
IsBigEndian(kind) ==
  kind \in {"SUInt8", "SInt8", "SUInt16BE", "SInt16BE", "SUInt32BE", "SInt32BE"}

\* Whether Buffer.prototype.write*() accepts the value.  Every integer of the
\* model is below 2^31, so it is below the upper limit of a 32-bit class.
InWriteRange(kind, v) ==
  LET w == serializedLength(kind)
  IN  IF IsSigned(kind)
      THEN w = 4 \/ (v >= -Pow2(8 * w - 1) /\ v < Pow2(8 * w - 1))
      ELSE v >= 0 /\ (w = 4 \/ v < Pow2(8 * w))

\* The w bytes of v in two's complement, least significant first.
BytesLE(v, w) == [i \in 1..w |-> (v \div Pow2(8 * (i - 1))) % 256]

Reverse(q) == [i \in 1..Len(q) |-> q[Len(q) + 1 - i]]

\* writeFn.call(buffer, value) on Buffer.alloc(serializedLength)
writeFn(kind, v) ==
  IF ~InWriteRange(kind, v)
  THEN Fail(RangeError(<<"The value of \"value\" is out of range">>))
  ELSE [ok |-> TRUE,
        buf |-> IF IsBigEndian(kind) THEN Reverse(BytesLE(v, serializedLength(kind)))
                ELSE BytesLE(v, serializedLength(kind))]

RECURSIVE UnsignedLE(_)
\* The unsigned value of bytes given least significant first (below 2^31).
UnsignedLE(bytes) ==
  IF bytes = <<>> THEN 0 ELSE Head(bytes) + 256 * UnsignedLE(Tail(bytes))

\* The integer a read of w bytes yields, as ToInt32 sees it: for an unsigned
\* 32-bit read with the top bit set this is the read value minus 2^32, the
\* form in which the 32-bit operators use it.
Int32OfBytesLE(bytes, signed) ==
  LET w == Len(bytes)
      top == bytes[w]
  IN  IF (signed \/ w = 4) /\ top >= 128
      THEN IF w = 4
           THEN ((UnsignedLE([bytes EXCEPT ![w] = top - 128]) - Pow2(30)) - Pow2(30))
           ELSE UnsignedLE(bytes) - Pow2(8 * w)
      ELSE UnsignedLE(bytes)

\* readFn.call(buffer): reads at offset 0, throws when the buffer is short.
readFn(kind, buffer) ==
  LET w == serializedLength(kind)
  IN  IF Len(buffer) < w
      THEN Fail(RangeError(<<"Attempt to access memory outside buffer bounds">>))
      ELSE LET bytes == SubSeq(buffer, 1, w)
               le == IF IsBigEndian(kind) THEN Reverse(bytes) ELSE bytes
           IN  [ok |-> TRUE, value |-> Int32OfBytesLE(le, IsSigned(kind))]

\* new <scalar class>()
NewScalar(kind) == [cls |-> "scalar", kind |-> kind, value |-> 0]
\* <scalar class>.of(v)
ScalarOf(kind, v) == [cls |-> "scalar", kind |-> kind, value |-> v]

Scalar_deserialize(this, buffer) ==
  LET r == readFn(this.kind, buffer)
  IN  IF r.ok
      THEN [ok |-> TRUE, obj |-> [this EXCEPT !.value = r.value],
            n |-> serializedLength(this.kind)]
      ELSE [ok |-> FALSE, obj |-> this, err |-> r.err]

Scalar_serialize(this) == writeFn(this.kind, this.value)

Scalar_getSerializedLength(this) ==
  [ok |-> TRUE, len |-> serializedLength(this.kind)]

----------------------------------------------------------------------------
(* The enum variant of a scalar wrapper: <scalar class>.enum(enumType).     *)
(* enumType is the object TypeScript generates for a numeric enum, a map    *)
(* from property key to value with the labels and the reverse mapping.  A   *)
(* property key is a string, written as a sequence of pieces.  The value    *)
(* an instance holds is whatever was assigned to it: a number, a string or  *)
(* a function of Object.prototype.                                          *)

JFunction == [j |-> "function"]
JUndefined == [j |-> "undefined"]

\* String(n), the property key a number indexes an object with.
KeyOf(n) == <<ToString(n)>>

\* enum E {L1 = n1, L2 = n2, ...}, labels being the map from label to number:
\* E[L] is the number of L and E[n] is the label of n.
TSEnum(labels) ==
  [k \in {<<l>> : l \in DOMAIN labels} \cup {KeyOf(labels[l]) : l \in DOMAIN labels} |->
     IF \E l \in DOMAIN labels : k = <<l>>
     THEN JNum(labels[CHOOSE l \in DOMAIN labels : k = <<l>>])
     ELSE JStr(<<CHOOSE l \in DOMAIN labels : k = KeyOf(labels[l])>>)]

\* enum TestEnum {ZERO = 0, ONE = 1}
TestEnum == TSEnum(("ZERO" :> 0) @@ ("ONE" :> 1))

\* The properties an object literal inherits from Object.prototype.
ObjectPrototypeKeys ==
  {<<"constructor">>, <<"hasOwnProperty">>, <<"toString">>, <<"valueOf">>}

\* key in enumType
In(key, enumType) == key \in DOMAIN enumType \/ key \in ObjectPrototypeKeys

\* enumType[key]
Lookup(enumType, key) ==
  IF key \in DOMAIN enumType THEN enumType[key]
  ELSE IF key \in ObjectPrototypeKeys THEN JFunction
  ELSE JUndefined

\* The property key a value indexes with.
PropertyKeyOf(v) ==
  CASE v.j = "num" -> KeyOf(v.num)
    [] v.j = "str" -> v.str
    [] OTHER -> <<"[", v.j, "]">>

\* new (<scalar class>.enum(enumType))()
NewEnum(kind, enumType) ==
  [cls |-> "enum", kind |-> kind, enumType |-> enumType, value |-> JNum(0)]
\* <scalar class>.enum(enumType).of(v)
EnumOf(kind, enumType, v) == [NewEnum(kind, enumType) EXCEPT !.value = v]

\* toJSON(): enumType[this.value] ?? this.value
Enum_toJSON(this) ==
  LET label == Lookup(this.enumType, PropertyKeyOf(this.value))
  IN  [ok |-> TRUE, json |-> IF label = JUndefined THEN this.value ELSE label]

InvalidLabelError(jsonValue) ==
  Error(<<"Invalid label for enum Object: ">> \o jsonValue.str)

\* assignJSON(jsonValue)
Enum_assignJSON(this, jsonValue) ==
  IF jsonValue.j = "str"
  THEN IF ~In(jsonValue.str, this.enumType)
       THEN [ok |-> FALSE, obj |-> this, err |-> InvalidLabelError(jsonValue)]
       ELSE [ok |-> TRUE,
             obj |-> [this EXCEPT !.value = Lookup(this.enumType, jsonValue.str)]]
  ELSE [ok |-> TRUE, obj |-> [this EXCEPT !.value = jsonValue]]

Enum_deserialize(this, buffer) ==
  LET r == readFn(this.kind, buffer)
  IN  IF r.ok
      THEN [ok |-> TRUE, obj |-> [this EXCEPT !.value = JNum(r.value)],
            n |-> serializedLength(this.kind)]
      ELSE [ok |-> FALSE, obj |-> this, err |-> r.err]

\* writeFn.call(buffer, this.value): Buffer.prototype.write*() takes +value,
\* which is NaN for a label or a function and is written as zero.
Enum_serialize(this) ==
  IF this.value.j = "num" THEN writeFn(this.kind, this.value.num)
  ELSE [ok |-> TRUE, buf |-> Alloc(serializedLength(this.kind))]

Enum_getSerializedLength(this) ==
  [ok |-> TRUE, len |-> serializedLength(this.kind)]

----------------------------------------------------------------------------
(* ThrowingSerializable of the test suite: every operation but             *)
(* getSerializedLength throws Error(errorMessage).                         *)

NewThrowing(errorMessage) == [cls |-> "throwing", errorMessage |-> errorMessage]

Throwing_deserialize(this) ==
  [ok |-> FALSE, obj |-> this, err |-> Error(this.errorMessage)]
Throwing_serialize(this) == Fail(Error(this.errorMessage))
Throwing_getSerializedLength(this) == [ok |-> TRUE, len |-> 1]
Throwing_toJSON(this) == Fail(Error(this.errorMessage))

----------------------------------------------------------------------------
(* Text.  A string is a sequence of code points.  The text codec is the    *)
(* external iconv-lite; the model knows two encodings, UTF-8 (one to three *)
(* bytes per code point of the Basic Multilingual Plane) and Latin-1.      *)

KnownEncodings == {"utf-8", "latin1"}

\* iconv.encodingExists(encoding)
encodingExists(encoding) == encoding \in KnownEncodings

Utf8OfChar(c) ==
  IF c < 128 THEN <<c>>
  ELSE IF c < 2048 THEN <<192 + (c \div 64), 128 + (c % 64)>>
  ELSE <<224 + (c \div 4096), 128 + ((c \div 64) % 64), 128 + (c % 64)>>

RECURSIVE iconv_encode(_, _)
\* iconv.encode(s, encoding)
iconv_encode(s, encoding) ==
  IF s = <<>> THEN <<>>
  ELSE (IF encoding = "utf-8" THEN Utf8OfChar(Head(s))
        ELSE IF Head(s) < 256 THEN <<Head(s)>> ELSE <<63>>)
       \o iconv_encode(Tail(s), encoding)

IsContinuation(b) == b >= 128 /\ b <= 191

RECURSIVE Utf8Decode(_)
Utf8Decode(b) ==
  IF b = <<>> THEN <<>>
  ELSE IF b[1] < 128 THEN <<b[1]>> \o Utf8Decode(Tail(b))
  ELSE IF b[1] >= 194 /\ b[1] <= 223 /\ Len(b) >= 2 /\ IsContinuation(b[2])
    THEN <<(b[1] - 192) * 64 + (b[2] - 128)>> \o Utf8Decode(SliceFrom(b, 2))
  ELSE IF b[1] >= 224 /\ b[1] <= 239 /\ Len(b) >= 3
          /\ IsContinuation(b[2]) /\ IsContinuation(b[3])
          /\ (b[1] - 224) * 4096 + (b[2] - 128) * 64 >= 2048
    THEN <<(b[1] - 224) * 4096 + (b[2] - 128) * 64 + (b[3] - 128)>>
         \o Utf8Decode(SliceFrom(b, 3))
  ELSE <<65533>> \o Utf8Decode(Tail(b))  \* U+FFFD for bytes that are no character

\* iconv.decode(buffer, encoding)
iconv_decode(buffer, encoding) ==
  IF encoding = "utf-8" THEN Utf8Decode(buffer) ELSE buffer

\* A faulty variant of getEncodingOrDefault: without opts.encoding it takes
\* 'utf-8' whatever the default encoding is.
getEncodingOrUtf8(opts) ==
  LET encoding == IF opts.hasEncoding THEN opts.encoding ELSE "utf-8"
  IN  IF ~encodingExists(encoding)
      THEN Fail(Error(<<"Unknown text encoding: ", encoding>>))
      ELSE [ok |-> TRUE, encoding |-> encoding]

\* A faulty variant of getEncodingOrDefault: an encoding that does not exist
\* is replaced by 'utf-8'.
getEncodingOrFallback(opts) ==
  LET encoding == IF opts.hasEncoding THEN opts.encoding ELSE defaultEncoding
  IN  [ok |-> TRUE, encoding |-> IF encodingExists(encoding) THEN encoding ELSE "utf-8"]

\* getEncodingOrDefault(opts): opts.encoding ?? defaultEncoding, or the
\* unknown-encoding error.
getEncodingOrDefault(opts) ==
  LET encoding == IF opts.hasEncoding THEN opts.encoding ELSE defaultEncoding
  IN  IF ~encodingExists(encoding)
      THEN Fail(Error(<<"Unknown text encoding: ", encoding>>))
      ELSE [ok |-> TRUE, encoding |-> encoding]

\* decodeString(buffer, opts)
decodeString(buffer, opts) ==
  LET e == getEncodingOrDefault(opts)
  IN  IF e.ok THEN [ok |-> TRUE, str |-> iconv_decode(buffer, e.encoding)] ELSE e

\* encodeString(s, opts)
encodeString(s, opts) ==
  LET e == getEncodingOrDefault(opts)
  IN  IF e.ok THEN [ok |-> TRUE, buf |-> iconv_encode(s, e.encoding)] ELSE e

(* smart-buffer.                                                           *)

RECURSIVE NullPos(_, _)
\* The offset of the first zero byte at or after offset i, or the length.
NullPos(buffer, i) ==
  IF i >= Len(buffer) THEN Len(buffer)
  ELSE IF buffer[i + 1] = 0 THEN i ELSE NullPos(buffer, i + 1)

\* SmartBuffer.fromBuffer(buffer).readBufferNT(): the bytes before the first
\* zero byte (all of them when there is none) and the read offset after it.
readBufferNT(buffer) ==
  LET nullPos == NullPos(buffer, 0)
  IN  [value |-> Subarray(buffer, 0, nullPos), readOffset |-> nullPos + 1]

\* SmartBuffer.fromBuffer(Buffer.alloc(n)), or new SmartBuffer() for n = 0,
\* after one write of data at offset 0; toBuffer() is its first `length` bytes.
WriteAt0(n, data) ==
  [i \in 1..Max(n, Len(data)) |-> IF i <= Len(data) THEN data[i] ELSE 0]

(* SStringNT and SString.  `length` is undefined for the dynamically sized *)
(* classes (hasLength = FALSE) and the number given to ofLength otherwise. *)

NewSStringNT == [cls |-> "SStringNT", hasLength |-> FALSE, length |-> 0, value |-> <<>>]
NewSString == [cls |-> "SString", hasLength |-> FALSE, length |-> 0, value |-> <<>>]

\* SStringNT.ofLength(length) / SString.ofLength(length), then new
StringOfLength(cls, length) ==
  [cls |-> cls, hasLength |-> TRUE, length |-> length, value |-> <<>>]

\* `if (this.length)`: undefined and 0 are both falsy.
Truthy(this) == this.hasLength /\ this.length # 0

\* A faulty variant of SStringNT.deserialize: it decodes the bytes after the
\* NUL as well.
SStringNT_deserializeWindow(this, buffer, opts) ==
  LET window == IF Truthy(this) THEN Subarray(buffer, 0, this.length) ELSE buffer
      d == decodeString(window, opts)
  IN  IF ~d.ok THEN [ok |-> FALSE, obj |-> this, err |-> d.err]
      ELSE [ok |-> TRUE, obj |-> [this EXCEPT !.value = d.str], n |-> Len(window)]

SStringNT_deserialize(this, buffer, opts) ==
  LET window == IF Truthy(this) THEN Subarray(buffer, 0, this.length) ELSE buffer
      r == readBufferNT(window)
      d == decodeString(r.value, opts)
  IN  IF ~d.ok THEN [ok |-> FALSE, obj |-> this, err |-> d.err]
      ELSE [ok |-> TRUE, obj |-> [this EXCEPT !.value = d.str],
            n |-> IF Truthy(this) THEN Len(window) ELSE r.readOffset]

SStringNT_serialize(this, opts) ==
  LET e == encodeString(this.value, opts)
  IN  IF ~e.ok THEN e
      ELSE IF Truthy(this)
      THEN [ok |-> TRUE,
            buf |-> WriteAt0(this.length, Subarray(e.buf, 0, this.length - 1) \o <<0>>)]
      ELSE [ok |-> TRUE, buf |-> WriteAt0(0, e.buf \o <<0>>)]

\* A faulty variant of SStringNT.getSerializedLength: it counts characters
\* where the code counts encoded bytes.
SStringNT_getSerializedLengthInChars(this, opts) ==
  IF Truthy(this) THEN [ok |-> TRUE, len |-> this.length]
  ELSE LET e == encodeString(this.value, opts)
       IN  IF e.ok THEN [ok |-> TRUE, len |-> Len(this.value) + 1] ELSE e

SStringNT_getSerializedLength(this, opts) ==
  IF Truthy(this) THEN [ok |-> TRUE, len |-> this.length]
  ELSE LET e == encodeString(this.value, opts)
       IN  IF e.ok THEN [ok |-> TRUE, len |-> Len(e.buf) + 1] ELSE e

SString_deserialize(this, buffer, opts) ==
  LET window == IF Truthy(this) THEN Subarray(buffer, 0, this.length) ELSE buffer
      d == decodeString(window, opts)
  IN  IF ~d.ok THEN [ok |-> FALSE, obj |-> this, err |-> d.err]
      ELSE [ok |-> TRUE, obj |-> [this EXCEPT !.value = d.str], n |-> Len(window)]

SString_serialize(this, opts) ==
  LET e == encodeString(this.value, opts)
  IN  IF ~e.ok THEN e
      ELSE IF Truthy(this)
      THEN [ok |-> TRUE, buf |-> WriteAt0(this.length, Subarray(e.buf, 0, this.length))]
      ELSE [ok |-> TRUE, buf |-> WriteAt0(0, e.buf)]

SString_getSerializedLength(this, opts) ==
  IF Truthy(this) THEN [ok |-> TRUE, len |-> this.length]
  ELSE LET e == encodeString(this.value, opts)
       IN  IF e.ok THEN [ok |-> TRUE, len |-> Len(e.buf)] ELSE e

----------------------------------------------------------------------------
(* SBuffer and SDynamicBuffer.  lengthType is the scalar class of the      *)
(* length prefix.                                                          *)

NewSBuffer == [cls |-> "SBuffer", value |-> <<>>]
NewSDynamicBuffer(lengthType) ==
  [cls |-> "SDynamicBuffer", lengthType |-> lengthType, value |-> <<>>]

SBuffer_deserialize(this, buffer) ==
  [ok |-> TRUE, obj |-> [this EXCEPT !.value = buffer], n |-> Len(buffer)]
SBuffer_serialize(this) == [ok |-> TRUE, buf |-> this.value]
SBuffer_getSerializedLength(this) == [ok |-> TRUE, len |-> Len(this.value)]

SDynamicBuffer_deserialize(this, buffer) ==
  LET length == Scalar_deserialize(NewScalar(this.lengthType), buffer)
  IN  IF ~length.ok THEN [ok |-> FALSE, obj |-> this, err |-> length.err]
      ELSE [ok |-> TRUE,
            obj |-> [this EXCEPT
                       !.value = Subarray(buffer, length.n, length.n + length.obj.value)],
            n |-> length.n + length.obj.value]

SDynamicBuffer_serialize(this) ==
  LET length == Scalar_serialize(ScalarOf(this.lengthType, Len(this.value)))
  IN  IF ~length.ok THEN length
      ELSE [ok |-> TRUE, buf |-> Concat(<<length.buf, this.value>>)]

SDynamicBuffer_getSerializedLength(this) ==
  [ok |-> TRUE,
   len |-> Scalar_getSerializedLength(NewScalar(this.lengthType)).len + Len(this.value)]

\* The memory that a Buffer held by the caller shares with this.value after
\* a call: none, or the bytes of the caller's Buffer from `offset` on.
NoShare == [shared |-> FALSE, offset |-> 0]
ShareFrom(offset) == [shared |-> TRUE, offset |-> offset]

\* SBuffer.deserialize: this.value is a new Buffer.alloc the input is copied to.
SBuffer_deserializeShare(this, buffer) == NoShare

\* SBuffer.serialize: `return this.value`, the Buffer held itself.
SBuffer_serializeShare(this) == ShareFrom(0)

\* SDynamicBuffer.deserialize: this.value is buffer.subarray(readOffset, ...),
\* a view of the memory of the input.
SDynamicBuffer_deserializeShare(this, buffer) ==
  ShareFrom(serializedLength(this.lengthType))

\* SDynamicBuffer.serialize: Buffer.concat returns a new Buffer.
SDynamicBuffer_serializeShare(this) == NoShare

----------------------------------------------------------------------------
(* The Serializable interface, dispatched on the class of the instance.    *)

RECURSIVE serialize(_, _), deserialize(_, _, _), getSerializedLength(_, _), toJSON(_)

----------------------------------------------------------------------------
(* SArray.  value is the stored sequence of elements; length is undefined  *)
(* (hasLength = FALSE) or the N of ofLength(N, elementType); elementType   *)
(* is given as the instance `new elementType()` constructs.                *)

NoType == [cls |-> "none"]

\* new SArray(), then value assigned: SArray.of(value)
SArrayOf(value) ==
  [cls |-> "SArray", hasLength |-> FALSE, length |-> 0, elementType |-> NoType,
   value |-> value]

\* SArray.ofLength(length, elementType).of(value)
SArrayOfLength(length, elementType, value) ==
  [cls |-> "SArray", hasLength |-> TRUE, length |-> length,
   elementType |-> elementType, value |-> value]

\* new (SArray.ofLength(length, elementType))()
NewSArrayOfLength(length, elementType) ==
  SArrayOfLength(length, elementType, [i \in 1..length |-> elementType])

\* A faulty variant of SArrayError: it reports the position after the one
\* that failed.
SArrayErrorAtNext(index, element, e) ==
  [name |-> "SArrayError",
   message |-> <<"Error at element ", IndexText(index + 1), ": ">> \o e.message,
   cause |-> e, element |-> element, index |-> index + 1]

\* new SArrayError(`Error at element ${index}: ${e.message}`, {cause: e}),
\* with element and index set.
SArrayError(index, element, e) ==
  [name |-> "SArrayError",
   message |-> <<"Error at element ", IndexText(index), ": ">> \o e.message,
   cause |-> e, element |-> element, index |-> index]

\* A faulty variant of mapSArrayElements: it pads but never truncates.
mapAllElements(sarray) ==
  IF sarray.hasLength /\ Len(sarray.value) < sarray.length
  THEN sarray.value
       \o [i \in 1..(sarray.length - Len(sarray.value)) |-> sarray.elementType]
  ELSE sarray.value

\* The sequence mapSArray iterates over: the stored sequence padded with
\* new elements up to length, or cut to its first length elements.
mapSArrayElements(sarray) ==
  IF sarray.hasLength /\ Len(sarray.value) < sarray.length
  THEN sarray.value
       \o [i \in 1..(sarray.length - Len(sarray.value)) |-> sarray.elementType]
  ELSE IF sarray.hasLength /\ Len(sarray.value) > sarray.length
  THEN SubSeq(sarray.value, 1, sarray.length)
  ELSE sarray.value

\* A faulty variant of mapSArrayStored: the padded or truncated sequence
\* replaces the stored one.
mapSArrayStoredView(sarray) == mapSArrayElements(sarray)

\* sarray.value after mapSArray: `elements` is a new array, or sarray.value
\* itself when neither padded nor truncated, and mapSArray assigns neither
\* sarray.value nor an index of elements.
mapSArrayStored(sarray) == sarray.value

RECURSIVE mapFrom(_, _, _)
\* elements.map(...) of mapSArray from position index on: the results of
\* fn(element, index) in order, or the SArrayError of the first element
\* whose callback throws.  fn is given as the sequence of what the callback
\* returns or throws at each position.
mapFrom(elements, fn, index) ==
  IF index >= Len(elements) THEN [ok |-> TRUE, results |-> <<>>]
  ELSE LET element == elements[index + 1]
           r == fn[index + 1]
       IN  IF ~r.ok THEN Fail(SArrayError(index, element, r.err))
           ELSE LET rest == mapFrom(elements, fn, index + 1)
                IN  IF rest.ok
                    THEN [ok |-> TRUE, results |-> <<r>> \o rest.results]
                    ELSE rest

\* mapSArray(sarray, fn) for a read-only fn
mapSArray(sarray, fn) == mapFrom(mapSArrayElements(sarray), fn, 0)

RECURSIVE deserializeFrom(_, _, _, _, _, _)
\* mapSArray(this, ...) with the callback of SArray.deserialize, from
\* position index on: the element decodes buffer.slice(offset) in place, and
\* an element of the padding is pushed onto the stored sequence.
deserializeFrom(this, elements, buffer, opts, index, offset) ==
  IF index >= Len(elements) THEN [ok |-> TRUE, obj |-> this, n |-> offset]
  ELSE LET r == deserialize(elements[index + 1], SliceFrom(buffer, offset), opts)
           stored == index < Len(this.value)
           inPlace == [this EXCEPT !.value[index + 1] = r.obj]
       IN  IF ~r.ok
           THEN [ok |-> FALSE, obj |-> IF stored THEN inPlace ELSE this,
                 err |-> SArrayError(index, r.obj, r.err)]
           ELSE deserializeFrom(
                  IF stored THEN inPlace
                  ELSE [this EXCEPT !.value = Append(this.value, r.obj)],
                  elements, buffer, opts, index + 1, offset + r.n)

\* A faulty variant of SArray.deserialize: it cuts the stored sequence to
\* length before decoding.
SArray_deserializeResizing(this, buffer, opts) ==
  LET cut == [this EXCEPT !.value = mapSArrayElements(this)]
  IN  deserializeFrom(IF this.hasLength THEN cut ELSE this,
                      mapSArrayElements(this), buffer, opts, 0, 0)

SArray_deserialize(this, buffer, opts) ==
  deserializeFrom(this, mapSArrayElements(this), buffer, opts, 0, 0)

\* A faulty variant of SArray.serialize: it emits the stored elements only.
SArray_serializeStored(this, opts) ==
  LET fn == [i \in 1..Len(this.value) |-> serialize(this.value[i], opts)]
      m == mapFrom(this.value, fn, 0)
  IN  IF m.ok
      THEN [ok |-> TRUE, buf |-> Concat([i \in 1..Len(m.results) |-> m.results[i].buf])]
      ELSE m

SArray_serialize(this, opts) ==
  LET elements == mapSArrayElements(this)
      fn == [i \in 1..Len(elements) |-> serialize(elements[i], opts)]
      m == mapSArray(this, fn)
  IN  IF m.ok
      THEN [ok |-> TRUE, buf |-> Concat([i \in 1..Len(m.results) |-> m.results[i].buf])]
      ELSE m

SArray_getSerializedLength(this, opts) ==
  LET elements == mapSArrayElements(this)
      fn == [i \in 1..Len(elements) |-> getSerializedLength(elements[i], opts)]
      m == mapSArray(this, fn)
  IN  IF m.ok
      THEN [ok |-> TRUE, len |-> SumSeq([i \in 1..Len(m.results) |-> m.results[i].len])]
      ELSE m

SArray_toJSON(this) ==
  LET elements == mapSArrayElements(this)
      fn == [i \in 1..Len(elements) |-> toJSON(elements[i])]
      m == mapSArray(this, fn)
  IN  IF m.ok
      THEN [ok |-> TRUE, json |-> JArr([i \in 1..Len(m.results) |-> m.results[i].json])]
      ELSE m

----------------------------------------------------------------------------
(* SArrayWithWrapper: value is the sequence of unwrapped values, and       *)
(* wrapperType is given as the instance `new wrapperType()` constructs.    *)

\* new (SArray.of(wrapperType))(), then value assigned
SArrayWithWrapperOf(wrapperType, value) ==
  [cls |-> "SArrayWithWrapper", hasLength |-> FALSE, length |-> 0,
   wrapperType |-> wrapperType, value |-> value]

\* new (SArray.of(wrapperType).ofLength(length))(), then value assigned
SArrayWithWrapperOfLength(wrapperType, length, value) ==
  [cls |-> "SArrayWithWrapper", hasLength |-> TRUE, length |-> length,
   wrapperType |-> wrapperType, value |-> value]

\* new (SArray.of(wrapperType).ofLength(length))()
NewSArrayWithWrapperOfLength(wrapperType, length) ==
  SArrayWithWrapperOfLength(wrapperType, length,
                            [i \in 1..length |-> wrapperType.value])

\* const wrapper = new wrapperType(); wrapper.value = element
Wrap(wrapperType, element) == [wrapperType EXCEPT !.value = element]

\* Whether the unwrapped value of a wrapper class is an array, which the
\* wrapper and the owner share and the wrapper changes in place.
SharesValue(wrapperType) == wrapperType.cls \in {"SArray", "SArrayWithWrapper"}

\* SArrayWithWrapper.toSArray()
SArrayWithWrapper_toSArray(this) ==
  [cls |-> "SArray", hasLength |-> this.hasLength, length |-> this.length,
   elementType |-> this.wrapperType,
   value |-> [i \in 1..Len(this.value) |-> Wrap(this.wrapperType, this.value[i])]]

SArrayWithWrapper_deserialize(this, buffer, opts) ==
  LET array == SArrayWithWrapper_toSArray(this)
      r == SArray_deserialize(array, buffer, opts)
      unwrapped == [i \in 1..Len(r.obj.value) |-> r.obj.value[i].value]
  IN  IF r.ok THEN [ok |-> TRUE, obj |-> [this EXCEPT !.value = unwrapped], n |-> r.n]
      ELSE [ok |-> FALSE,
            obj |-> IF SharesValue(this.wrapperType)
                    THEN [this EXCEPT !.value = SubSeq(unwrapped, 1, Len(this.value))]
                    ELSE this,
            err |-> r.err]

SArrayWithWrapper_serialize(this, opts) ==
  SArray_serialize(SArrayWithWrapper_toSArray(this), opts)

SArrayWithWrapper_getSerializedLength(this, opts) ==
  SArray_getSerializedLength(SArrayWithWrapper_toSArray(this), opts)

SArrayWithWrapper_toJSON(this) == SArray_toJSON(SArrayWithWrapper_toSArray(this))

----------------------------------------------------------------------------
(* SObject.  An instance carries the registry of its class (fieldSpecs, in *)
(* registration order, and the two JSON settings) and its properties:      *)
(* keys are the own enumerable properties in enumeration order with their  *)
(* values in props, and accessors maps each property defined by a getter   *)
(* on the prototype to the instance the getter returns.  The value of a    *)
(* property is a Serializable instance, the unwrapped value of a field     *)
(* registered with a wrapper, or a plain value (cls = "plain").            *)

Plain(json) == [cls |-> "plain", json |-> json]

\* A field registered by @field() and one registered by @field(wrapperType).
FieldSpec(propertyKey) ==
  [propertyKey |-> propertyKey, hasWrapper |-> FALSE, wrapperType |-> NoType]
WrappedFieldSpec(propertyKey, wrapperType) ==
  [propertyKey |-> propertyKey, hasWrapper |-> TRUE, wrapperType |-> wrapperType]

\* getFieldSpecs(targetInstance)
getFieldSpecs(this) == this.fieldSpecs

\* The names of the registered fields.
FieldNames(this) ==
  {getFieldSpecs(this)[i].propertyKey : i \in 1..Len(getFieldSpecs(this))}

\* A getter that returns the sum of the numbers two plain properties hold,
\* as a number when the getter is a field with a wrapper.
SumGetter(a, b, isField) == [cls |-> "getter", a |-> a, b |-> b, isField |-> isField]

\* A getter that returns the unwrapped value given.
ConstantGetter(value) == [cls |-> "constant", value |-> value]

\* What a getter of the prototype returns: the instance given for it, the
\* sum of a SumGetter or the value of a ConstantGetter.
Getter(this, getter) ==
  IF getter.cls = "getter"
  THEN LET sum == this.props[getter.a].json.num + this.props[getter.b].json.num
       IN  IF getter.isField THEN sum ELSE Plain(JNum(sum))
  ELSE IF getter.cls = "constant" THEN getter.value
  ELSE getter

\* targetInstance[propertyKey]
Get(this, propertyKey) ==
  IF propertyKey \in DOMAIN this.props THEN this.props[propertyKey]
  ELSE Getter(this, this.accessors[propertyKey])

\* The names of the fields registered with a wrapper.
WrappedFieldNames(this) ==
  {getFieldSpecs(this)[i].propertyKey :
     i \in {j \in 1..Len(getFieldSpecs(this)) : getFieldSpecs(this)[j].hasWrapper}}

\* toJSON(value) of utils for the unwrapped value of a field registered
\* with wrapperType: the value itself.
RawJSON(wrapperType, value) ==
  CASE wrapperType.cls = "scalar" -> JNum(value)
    [] wrapperType.cls = "enum" -> value
    [] wrapperType.cls \in {"SStringNT", "SString"} -> JStr(value)
    [] wrapperType.cls \in {"SBuffer", "SDynamicBuffer"} -> JBuf(value)

\* getFieldOrWrapper(targetInstance, fieldSpec)
getFieldOrWrapper(this, fieldSpec) ==
  IF fieldSpec.hasWrapper
  THEN Wrap(fieldSpec.wrapperType, Get(this, fieldSpec.propertyKey))
  ELSE Get(this, fieldSpec.propertyKey)

\* toSArray(targetInstance)
toSArray(this) ==
  SArrayOf([i \in 1..Len(getFieldSpecs(this)) |->
              getFieldOrWrapper(this, getFieldSpecs(this)[i])])

\* new SObjectError(propertyKey, cause)
SObjectError(propertyKey, cause) ==
  [name |-> "SObjectError",
   message |-> <<"Error in field ", propertyKey, ": ">> \o cause.message,
   cause |-> cause, propertyKey |-> propertyKey]

\* wrapSArrayErrorAsSObjectError(targetInstance, fn), r being what fn() returns
\* or throws.
wrapSArrayErrorAsSObjectError(this, r) ==
  IF r.ok THEN r
  ELSE IF r.err.name = "SArrayError"
  THEN [r EXCEPT !.err = SObjectError(getFieldSpecs(this)[r.err.index + 1].propertyKey,
                                      r.err.cause)]
  ELSE r

\* The properties after the elements of array were decoded: a field held as
\* an instance in an own property was decoded in place, as was the array a
\* wrapper shares with the property; writeBack also copies the value of every
\* wrapper into its property.
PropsAfter(this, array, writeBack) ==
  [k \in DOMAIN this.props |->
     IF k \in FieldNames(this)
     THEN LET i == CHOOSE i \in 1..Len(getFieldSpecs(this)) :
                     getFieldSpecs(this)[i].propertyKey = k
              spec == getFieldSpecs(this)[i]
          IN  IF ~spec.hasWrapper THEN array.value[i]
              ELSE IF writeBack \/ SharesValue(spec.wrapperType)
              THEN array.value[i].value
              ELSE this.props[k]
     ELSE this.props[k]]

\* The error of an assignment to a property that has only a getter.
TypeError(message) == [name |-> "TypeError", message |-> message]
GetterOnlyError(propertyKey) ==
  TypeError(<<"Cannot set property ", propertyKey, " which has only a getter">>)

\* The position of the first field with a wrapper that is defined by a getter.
FirstGetter(this) ==
  CHOOSE i \in 1..Len(getFieldSpecs(this)) :
    /\ getFieldSpecs(this)[i].propertyKey \in WrappedFieldNames(this) \cap DOMAIN this.accessors
    /\ \A j \in 1..(i - 1) :
         getFieldSpecs(this)[j].propertyKey \notin WrappedFieldNames(this) \cap DOMAIN this.accessors

\* The properties when the loop of SObject.deserialize throws at a field
\* defined by a getter: the fields before it have the value of their wrapper.
PropsUntilGetter(this, array) ==
  [k \in DOMAIN this.props |->
     IF \E i \in 1..(FirstGetter(this) - 1) : getFieldSpecs(this)[i].propertyKey = k
     THEN PropsAfter(this, array, TRUE)[k]
     ELSE PropsAfter(this, array, FALSE)[k]]

SObject_deserialize(this, buffer, opts) ==
  LET array == toSArray(this)
      r == wrapSArrayErrorAsSObjectError(this, SArray_deserialize(array, buffer, opts))
  IN  IF r.ok
      THEN IF WrappedFieldNames(this) \cap DOMAIN this.accessors # {}
           THEN [ok |-> FALSE, obj |-> [this EXCEPT !.props = PropsUntilGetter(this, r.obj)],
                 err |-> GetterOnlyError(getFieldSpecs(this)[FirstGetter(this)].propertyKey)]
           ELSE [ok |-> TRUE, obj |-> [this EXCEPT !.props = PropsAfter(this, r.obj, TRUE)],
                 n |-> r.n]
      ELSE [ok |-> FALSE, obj |-> [this EXCEPT !.props = PropsAfter(this, r.obj, FALSE)],
            err |-> r.err]

SObject_serialize(this, opts) ==
  wrapSArrayErrorAsSObjectError(this, SArray_serialize(toSArray(this), opts))

SObject_getSerializedLength(this, opts) ==
  wrapSArrayErrorAsSObjectError(this, SArray_getSerializedLength(toSArray(this), opts))

\* A JSON object: its keys in order and their values.
JObj(keys, vals) == [j |-> "obj", keys |-> keys, vals |-> vals]

\* this.toSerializableMap()[propertyKey]
SerializableField(this, propertyKey) ==
  getFieldOrWrapper(this,
    getFieldSpecs(this)[CHOOSE i \in 1..Len(getFieldSpecs(this)) :
                          getFieldSpecs(this)[i].propertyKey = propertyKey])

RECURSIVE entriesToJSON(_, _, _, _)
\* The filter and map over Object.entries(this) in SObject.toJSON, from
\* position i of keys on: a value that throws is reported as an SObjectError.
entriesToJSON(this, keys, i, acc) ==
  IF i > Len(keys) THEN [ok |-> TRUE, json |-> acc]
  ELSE LET propertyKey == keys[i]
       IN  IF propertyKey \in this.excluded
           THEN entriesToJSON(this, keys, i + 1, acc)
           ELSE LET r == toJSON(IF propertyKey \in FieldNames(this)
                                THEN SerializableField(this, propertyKey)
                                ELSE this.props[propertyKey])
                IN  IF ~r.ok THEN Fail(SObjectError(propertyKey, r.err))
                    ELSE entriesToJSON(this, keys, i + 1,
                           JObj(Append(acc.keys, propertyKey),
                                acc.vals @@ (propertyKey :> r.json)))

RECURSIVE includedToJSON(_, _, _, _)
\* Object.assign(result, ...) in SObject.toJSON: the properties marked
\* @json(true) that result lacks, from position i of included on.  The
\* value is this[propertyKey], for a field with a wrapper its unwrapped value.
includedToJSON(this, included, i, acc) ==
  IF i > Len(included) THEN [ok |-> TRUE, json |-> acc]
  ELSE LET propertyKey == included[i]
       IN  IF propertyKey \in DOMAIN acc.vals
           THEN includedToJSON(this, included, i + 1, acc)
           ELSE LET r == IF propertyKey \in WrappedFieldNames(this)
                         THEN [ok |-> TRUE,
                               json |-> RawJSON(SerializableField(this, propertyKey),
                                                Get(this, propertyKey))]
                         ELSE toJSON(Get(this, propertyKey))
                IN  IF ~r.ok THEN r
                    ELSE includedToJSON(this, included, i + 1,
                           JObj(Append(acc.keys, propertyKey),
                                acc.vals @@ (propertyKey :> r.json)))

SObject_toJSON(this) ==
  LET result == entriesToJSON(this, this.keys, 1, JObj(<<>>, [k \in {} |-> JNull]))
  IN  IF ~result.ok THEN result
      ELSE includedToJSON(this, this.included, 1, result.json)

RECURSIVE assignJSON(_, _)

\* The value a wrapper holds after `this.value = jsonValue`, for a JSON
\* value of the type of the wrapper.
RawOf(jsonValue) ==
  CASE jsonValue.j = "num" -> jsonValue.num
    [] jsonValue.j = "str" -> jsonValue.str
    [] jsonValue.j = "buf" -> jsonValue.data

\* SerializableWrapper.assignJSON(jsonValue)
Wrapper_assignJSON(this, jsonValue) ==
  [ok |-> TRUE, obj |-> [this EXCEPT !.value = RawOf(jsonValue)]]

\* SBuffer.assignJSON(jsonValue)
SBuffer_assignJSON(this, jsonValue) ==
  IF jsonValue.j = "buf"
  THEN [ok |-> TRUE, obj |-> [this EXCEPT !.value = jsonValue.data]]
  ELSE IF jsonValue.j = "arr"
  THEN [ok |-> TRUE,
        obj |-> [this EXCEPT !.value = [i \in 1..Len(jsonValue.arr) |-> jsonValue.arr[i].num]]]
  ELSE [ok |-> FALSE, obj |-> this, err |-> Error(<<"Invalid JSON value for SBuffer">>)]

\* typeof jsonValue
typeof(jsonValue) ==
  CASE jsonValue.j = "num" -> "number"
    [] jsonValue.j = "str" -> "string"
    [] jsonValue.j = "bool" -> "boolean"
    [] jsonValue.j = "undefined" -> "undefined"
    [] jsonValue.j = "function" -> "function"
    [] OTHER -> "object"

\* Object.entries(jsonObject): the keys of an array are its indices.
Entries(jsonObject) ==
  IF jsonObject.j = "arr"
  THEN [i \in 1..Len(jsonObject.arr) |->
          [propertyKey |-> ToString(i - 1), jsonValue |-> jsonObject.arr[i]]]
  ELSE IF jsonObject.j = "obj"
  THEN [i \in 1..Len(jsonObject.keys) |->
          [propertyKey |-> jsonObject.keys[i],
           jsonValue |-> jsonObject.vals[jsonObject.keys[i]]]]
  ELSE <<>>

\* shouldAssignJSON(currentValue, jsonValue) of utils, for a JSON value:
\* whether currentValue is an object with an assignJSON method (a JSON value
\* never has the constructor of such an object).
shouldAssignJSON(currentValue, jsonValue) ==
  currentValue.cls \in {"scalar", "enum", "SStringNT", "SString", "SBuffer",
                        "SDynamicBuffer", "SObject"}

\* (this as any)[propertyKey], undefined for a property the object lacks
GetOrUndefined(this, propertyKey) ==
  IF propertyKey \in DOMAIN this.props \cup DOMAIN this.accessors
  THEN Get(this, propertyKey)
  ELSE Plain(JUndefined)

\* (this as any)[propertyKey] = value
SetProperty(this, propertyKey, value) ==
  IF propertyKey \in DOMAIN this.props
  THEN [this EXCEPT !.props[propertyKey] = value]
  ELSE [this EXCEPT !.keys = Append(@, propertyKey),
                    !.props = @ @@ (propertyKey :> value)]

\* An entry assigned as Object.assign() would, without hydration.
assignEntryDirect(this, propertyKey, jsonValue) ==
  [ok |-> TRUE, obj |-> SetProperty(this, propertyKey, Plain(jsonValue))]

\* The body of the loop of SObject.assignJSON for one entry.
assignEntry(this, propertyKey, jsonValue) ==
  IF propertyKey \in WrappedFieldNames(this)
  THEN LET wrapper == SerializableField(this, propertyKey)
       IN  IF ~shouldAssignJSON(wrapper, jsonValue)
           THEN [ok |-> FALSE, obj |-> this,
                 err |-> SObjectError(propertyKey,
                           Error(<<"Field wrapper class does not support assignJSON">>))]
           ELSE LET r == assignJSON(wrapper, jsonValue)
                IN  IF ~r.ok THEN [ok |-> FALSE, obj |-> this, err |-> r.err]
                    ELSE IF propertyKey \in DOMAIN this.accessors
                    THEN [ok |-> FALSE, obj |-> this, err |-> GetterOnlyError(propertyKey)]
                    ELSE [ok |-> TRUE, obj |-> SetProperty(this, propertyKey, r.obj.value)]
  ELSE LET currentValue == GetOrUndefined(this, propertyKey)
       IN  IF shouldAssignJSON(currentValue, jsonValue)
           THEN LET r == assignJSON(currentValue, jsonValue)
                    after == IF propertyKey \in DOMAIN this.props
                             THEN [this EXCEPT !.props[propertyKey] = r.obj]
                             ELSE this
                IN  IF r.ok THEN [ok |-> TRUE, obj |-> after]
                    ELSE [ok |-> FALSE, obj |-> after, err |-> r.err]
           ELSE IF propertyKey \in DOMAIN this.accessors
           THEN [ok |-> FALSE, obj |-> this, err |-> GetterOnlyError(propertyKey)]
           ELSE [ok |-> TRUE, obj |-> SetProperty(this, propertyKey, Plain(jsonValue))]

RECURSIVE assignEntries(_, _, _)
\* The loop of SObject.assignJSON from position i of the entries on; an
\* entry that throws leaves the earlier entries assigned.
assignEntries(this, entries, i) ==
  IF i > Len(entries) THEN [ok |-> TRUE, obj |-> this]
  ELSE LET r == assignEntry(this, entries[i].propertyKey, entries[i].jsonValue)
       IN  IF ~r.ok THEN r ELSE assignEntries(r.obj, entries, i + 1)

SObject_assignJSON(this, jsonObject) ==
  IF typeof(jsonObject) # "object" \/ jsonObject = JNull
  THEN [ok |-> FALSE, obj |-> this,
        err |-> Error(<<"Expected object in SObject.assignJSON(), got ",
                        typeof(jsonObject)>>)]
  ELSE assignEntries(this, Entries(jsonObject), 1)

\* this.toSerializableMap(): the names of the fields in order and the
\* Serializable of each.
SObject_toSerializableMap(this) ==
  [keys |-> [i \in 1..Len(getFieldSpecs(this)) |-> getFieldSpecs(this)[i].propertyKey],
   vals |-> [k \in FieldNames(this) |-> SerializableField(this, k)]]

\* serializableValue instanceof SerializableWrapper
IsSerializableWrapper(serializableValue) ==
  serializableValue.cls \in {"scalar", "enum", "SStringNT", "SString", "SBuffer",
                             "SDynamicBuffer"}

RECURSIVE assignSerializables(_, _, _)
\* The loop of SObject.assignSerializableMap from position i of the keys
\* on.  The test of the wrapper reads fieldSpecMap.wrapperType, the entry of
\* the map of field specs for a field named wrapperType.
assignSerializables(this, serializableMap, i) ==
  IF i > Len(serializableMap.keys) THEN [ok |-> TRUE, obj |-> this]
  ELSE LET propertyKey == serializableMap.keys[i]
           serializableValue == serializableMap.vals[propertyKey]
       IN  IF propertyKey \notin FieldNames(this)
           THEN [ok |-> FALSE, obj |-> this,
                 err |-> SObjectError(propertyKey,
                           Error(<<"Unknown property ", propertyKey>>))]
           ELSE IF "wrapperType" \in FieldNames(this)
                   /\ ~IsSerializableWrapper(serializableValue)
           THEN [ok |-> FALSE, obj |-> this,
                 err |-> SObjectError(propertyKey,
                           Error(<<"Expected SerializableWrapper in assignment, got object">>))]
           ELSE IF propertyKey \in DOMAIN this.accessors
           THEN [ok |-> FALSE, obj |-> this, err |-> GetterOnlyError(propertyKey)]
           ELSE assignSerializables(
                  SetProperty(this, propertyKey,
                              IF "wrapperType" \in FieldNames(this)
                              THEN serializableValue.value ELSE serializableValue),
                  serializableMap, i + 1)

SObject_assignSerializableMap(this, serializableMap) ==
  assignSerializables(this, serializableMap, 1)

----------------------------------------------------------------------------
(* SBitmask.  wrapperType is the scalar class of the storage; bitfields is *)
(* the registry in declaration order; props holds the value of each        *)
(* bitfield property, a number, a boolean or a value of another type.      *)

Number(n) == [type |-> "number", num |-> n]
Boolean(b) == [type |-> "boolean", bool |-> b]
OtherValue(type) == [type |-> type]

Bitfield(propertyKey, length) == [propertyKey |-> propertyKey, length |-> length]

\* getSBitfieldSpecs(targetInstance)
getSBitfieldSpecs(this) == this.bitfields

\* validateLength(bitfields, expectedLength): TRUE when the lengths add up.
validateLength(bitfields, expectedLength) ==
  SumSeq([i \in 1..Len(bitfields) |-> bitfields[i].length]) = expectedLength * 8

BitLengthError ==
  Error(<<"Total length of bitfields do not match bitmask length">>)

\* getValueType(targetInstance, propertyKey): Number or Boolean, or throws.
getValueType(this, propertyKey) ==
  IF this.props[propertyKey].type \in {"number", "boolean"}
  THEN [ok |-> TRUE, type |-> this.props[propertyKey].type]
  ELSE Fail(Error(<<"Expected property ", propertyKey, " to be a number or boolean">>))

\* (this as any)[propertyKey] | 0
OrZero(v) == IF v.type = "boolean" THEN (IF v.bool THEN 1 ELSE 0) ELSE v.num

\* valueType(x): Number(x) or Boolean(x)
Coerce(type, x) == IF type = "boolean" THEN Boolean(x # 0) ELSE Number(x)

RECURSIVE getLoopUnmasked(_, _, _, _)
\* A faulty variant of the loop of `get value()`: it shifts the field value
\* without masking it to the bit-length.
getLoopUnmasked(this, i, offset, value) ==
  IF i < 1 THEN [ok |-> TRUE, value |-> value]
  ELSE LET propertyKey == getSBitfieldSpecs(this)[i].propertyKey
           length == getSBitfieldSpecs(this)[i].length
           t == getValueType(this, propertyKey)
       IN  IF ~t.ok THEN t
           ELSE getLoopUnmasked(this, i - 1, offset + length,
                  BitOr(value, Shl(OrZero(this.props[propertyKey]), offset)))

RECURSIVE getLoop(_, _, _, _)
\* The loop of `get value()` at position i (from the last bitfield down).
getLoop(this, i, offset, value) ==
  IF i < 1 THEN [ok |-> TRUE, value |-> value]
  ELSE LET propertyKey == getSBitfieldSpecs(this)[i].propertyKey
           length == getSBitfieldSpecs(this)[i].length
           fieldMask == Int32OfMask(length)
           t == getValueType(this, propertyKey)
       IN  IF ~t.ok THEN t
           ELSE getLoop(this, i - 1, offset + length,
                  BitOr(value,
                        Shl(BitAnd(OrZero(this.props[propertyKey]), fieldMask), offset)))

\* get value()
SBitmask_getValue(this) ==
  IF ~validateLength(getSBitfieldSpecs(this), serializedLength(this.wrapperType))
  THEN Fail(BitLengthError)
  ELSE getLoop(this, Len(getSBitfieldSpecs(this)), 0, 0)

RECURSIVE setLoop(_, _, _, _)
\* The loop of `set value(newValue)` at position i: a property of another
\* type stops it with the later-declared properties already assigned.
setLoop(this, i, offset, newValue) ==
  IF i < 1 THEN [ok |-> TRUE, obj |-> this]
  ELSE LET propertyKey == getSBitfieldSpecs(this)[i].propertyKey
           length == getSBitfieldSpecs(this)[i].length
           fieldMask == Int32OfMask(length)
           t == getValueType(this, propertyKey)
       IN  IF ~t.ok THEN [ok |-> FALSE, obj |-> this, err |-> t.err]
           ELSE setLoop(
                  [this EXCEPT !.props[propertyKey] =
                     Coerce(t.type, BitAnd(Shr(newValue, offset), fieldMask))],
                  i - 1, offset + length, newValue)

\* set value(newValue); newValue is given as ToInt32(newValue).
SBitmask_setValue(this, newValue) ==
  IF ~validateLength(getSBitfieldSpecs(this), serializedLength(this.wrapperType))
  THEN [ok |-> FALSE, obj |-> this, err |-> BitLengthError]
  ELSE setLoop(this, Len(getSBitfieldSpecs(this)), 0, newValue)

SBitmask_deserialize(this, buffer) ==
  LET wrapper == Scalar_deserialize(NewScalar(this.wrapperType), buffer)
  IN  IF ~wrapper.ok THEN [ok |-> FALSE, obj |-> this, err |-> wrapper.err]
      ELSE LET set == SBitmask_setValue(this, wrapper.obj.value)
           IN  IF set.ok THEN [ok |-> TRUE, obj |-> set.obj, n |-> wrapper.n]
               ELSE set

SBitmask_serialize(this) ==
  LET value == SBitmask_getValue(this)
  IN  IF ~value.ok THEN value
      ELSE Scalar_serialize(ScalarOf(this.wrapperType, value.value))

SBitmask_getSerializedLength(this) ==
  Scalar_getSerializedLength(NewScalar(this.wrapperType))

SBitmask_toJSON(this) ==
  [ok |-> TRUE,
   json |-> JObj([i \in 1..Len(getSBitfieldSpecs(this)) |->
                    getSBitfieldSpecs(this)[i].propertyKey],
                 [k \in {getSBitfieldSpecs(this)[i].propertyKey :
                           i \in 1..Len(getSBitfieldSpecs(this))} |->
                    IF this.props[k].type = "boolean" THEN JBool(this.props[k].bool)
                    ELSE IF this.props[k].type = "number" THEN JNum(this.props[k].num)
                    ELSE JNull])]

----------------------------------------------------------------------------
(* Dispatch.                                                               *)

deserialize(this, buffer, opts) ==
  CASE this.cls = "scalar" -> Scalar_deserialize(this, buffer)
    [] this.cls = "enum" -> Enum_deserialize(this, buffer)
    [] this.cls = "throwing" -> Throwing_deserialize(this)
    [] this.cls = "SStringNT" -> SStringNT_deserialize(this, buffer, opts)
    [] this.cls = "SString" -> SString_deserialize(this, buffer, opts)
    [] this.cls = "SBuffer" -> SBuffer_deserialize(this, buffer)
    [] this.cls = "SDynamicBuffer" -> SDynamicBuffer_deserialize(this, buffer)
    [] this.cls = "SArray" -> SArray_deserialize(this, buffer, opts)
    [] this.cls = "SArrayWithWrapper" -> SArrayWithWrapper_deserialize(this, buffer, opts)
    [] this.cls = "SObject" -> SObject_deserialize(this, buffer, opts)
    [] this.cls = "SBitmask" -> SBitmask_deserialize(this, buffer)

serialize(this, opts) ==
  CASE this.cls = "scalar" -> Scalar_serialize(this)
    [] this.cls = "enum" -> Enum_serialize(this)
    [] this.cls = "throwing" -> Throwing_serialize(this)
    [] this.cls = "SStringNT" -> SStringNT_serialize(this, opts)
    [] this.cls = "SString" -> SString_serialize(this, opts)
    [] this.cls = "SBuffer" -> SBuffer_serialize(this)
    [] this.cls = "SDynamicBuffer" -> SDynamicBuffer_serialize(this)
    [] this.cls = "SArray" -> SArray_serialize(this, opts)
    [] this.cls = "SArrayWithWrapper" -> SArrayWithWrapper_serialize(this, opts)
    [] this.cls = "SObject" -> SObject_serialize(this, opts)
    [] this.cls = "SBitmask" -> SBitmask_serialize(this)

getSerializedLength(this, opts) ==
  CASE this.cls = "scalar" -> Scalar_getSerializedLength(this)
    [] this.cls = "enum" -> Enum_getSerializedLength(this)
    [] this.cls = "throwing" -> Throwing_getSerializedLength(this)
    [] this.cls = "SStringNT" -> SStringNT_getSerializedLength(this, opts)
    [] this.cls = "SString" -> SString_getSerializedLength(this, opts)
    [] this.cls = "SBuffer" -> SBuffer_getSerializedLength(this)
    [] this.cls = "SDynamicBuffer" -> SDynamicBuffer_getSerializedLength(this)
    [] this.cls = "SArray" -> SArray_getSerializedLength(this, opts)
    [] this.cls = "SArrayWithWrapper" -> SArrayWithWrapper_getSerializedLength(this, opts)
    [] this.cls = "SObject" -> SObject_getSerializedLength(this, opts)
    [] this.cls = "SBitmask" -> SBitmask_getSerializedLength(this)

\* SerializableWrapper.toJSON() is toJSON(this.value) of utils: a number or a
\* string is its own JSON, a Buffer gives its tagged form.
toJSON(this) ==
  CASE this.cls = "scalar" -> [ok |-> TRUE, json |-> JNum(this.value)]
    [] this.cls = "enum" -> Enum_toJSON(this)
    [] this.cls = "throwing" -> Throwing_toJSON(this)
    [] this.cls \in {"SStringNT", "SString"} -> [ok |-> TRUE, json |-> JStr(this.value)]
    [] this.cls \in {"SBuffer", "SDynamicBuffer"} -> [ok |-> TRUE, json |-> JBuf(this.value)]
    [] this.cls = "SArray" -> SArray_toJSON(this)
    [] this.cls = "SArrayWithWrapper" -> SArrayWithWrapper_toJSON(this)
    [] this.cls = "SObject" -> SObject_toJSON(this)
    [] this.cls = "SBitmask" -> SBitmask_toJSON(this)
    [] this.cls = "plain" -> [ok |-> TRUE, json |-> this.json]

assignJSON(this, jsonValue) ==
  CASE this.cls \in {"scalar", "SStringNT", "SString"} -> Wrapper_assignJSON(this, jsonValue)
    [] this.cls = "enum" -> Enum_assignJSON(this, jsonValue)
    [] this.cls \in {"SBuffer", "SDynamicBuffer"} -> SBuffer_assignJSON(this, jsonValue)
    [] this.cls = "SObject" -> SObject_assignJSON(this, jsonValue)

----------------------------------------------------------------------------
(* The operations as actions.  Each records in `last` the operation, its   *)
(* inputs, the instance before the call and what the call returned or      *)
(* threw.                                                                  *)

NoBuffer == <<>>

\* Sequences over S of length n, and of length at most n.
RECURSIVE SeqsOfLength(_, _)
SeqsOfLength(S, n) ==
  IF n = 0 THEN {<<>>} ELSE {Append(q, x) : q \in SeqsOfLength(S, n - 1), x \in S}
SeqsUpTo(S, n) == UNION {SeqsOfLength(S, k) : k \in 0..n}

\* new T()
Construct(t) ==
  /\ obj = t
  /\ class = t
  /\ last = [op |-> "new", pre |-> t, opts |-> NoOpts, buffer |-> NoBuffer,
             res |-> [ok |-> TRUE]]
  /\ defaultEncoding = "utf-8"

\* The instance after serialize, getSerializedLength or toJSON.  None of
\* them assigns a property of the instance; those of an SArray go through
\* mapSArray.
AfterRead(this) ==
  IF this.cls = "SArray" THEN [this EXCEPT !.value = mapSArrayStored(this)] ELSE this

\* obj.serialize(opts)
Serialize(optsSet) ==
  \E opts \in optsSet :
    /\ last' = [op |-> "serialize", pre |-> obj, opts |-> opts, buffer |-> NoBuffer,
                res |-> serialize(obj, opts)]
    /\ obj' = AfterRead(obj)
    /\ UNCHANGED <<class, defaultEncoding>>

\* obj.deserialize(buffer, opts)
Deserialize(buffers, optsSet) ==
  \E buffer \in buffers, opts \in optsSet :
    LET r == deserialize(obj, buffer, opts)
    IN  /\ obj' = r.obj
        /\ last' = [op |-> "deserialize", pre |-> obj, opts |-> opts,
                    buffer |-> buffer, res |-> r]
        /\ UNCHANGED <<class, defaultEncoding>>

\* obj.getSerializedLength(opts)
GetSerializedLength(optsSet) ==
  \E opts \in optsSet :
    /\ last' = [op |-> "getSerializedLength", pre |-> obj, opts |-> opts,
                buffer |-> NoBuffer, res |-> getSerializedLength(obj, opts)]
    /\ obj' = AfterRead(obj)
    /\ UNCHANGED <<class, defaultEncoding>>

\* obj.toJSON()
ToJSON ==
  /\ last' = [op |-> "toJSON", pre |-> obj, opts |-> NoOpts, buffer |-> NoBuffer,
              res |-> toJSON(obj)]
  /\ obj' = AfterRead(obj)
  /\ UNCHANGED <<class, defaultEncoding>>

\* obj.value = value, for a wrapper
Assign(values) ==
  \E value \in values :
    /\ obj' = [obj EXCEPT !.value = value]
    /\ last' = [op |-> "assign", pre |-> obj, opts |-> NoOpts, buffer |-> NoBuffer,
                res |-> [ok |-> TRUE]]
    /\ UNCHANGED <<class, defaultEncoding>>

\* T.from(obj.serialize(opts), opts): the bytes obj serializes to, decoded
\* by a new instance of its class.
RoundTrip(optsSet) ==
  \E opts \in optsSet :
    LET s == serialize(obj, opts)
        d == deserialize(class, s.buf, opts)
    IN  /\ s.ok
        /\ last' = [op |-> "roundTrip", pre |-> obj, opts |-> opts, buffer |-> s.buf,
                    res |-> d, json |-> toJSON(obj), decoded |-> toJSON(d.obj)]
        /\ UNCHANGED <<obj, class, defaultEncoding>>


\* obj.assignJSON(jsonValue)
AssignJSON(jsonValues) ==
  \E jsonValue \in jsonValues :
    LET r == assignJSON(obj, jsonValue)
    IN  /\ obj' = r.obj
        /\ last' = [op |-> "assignJSON", pre |-> obj, opts |-> NoOpts,
                    buffer |-> NoBuffer, res |-> r, json |-> jsonValue]
        /\ UNCHANGED <<class, defaultEncoding>>

----------------------------------------------------------------------------
(* Arrays: ofLength(N) and dynamically sized, with and without a wrapper   *)
(* class, of one-byte integers and of elements that throw.                 *)

SUInt8 == NewScalar("SUInt8")

\* The fixed lengths of the array classes.
FixedLengths == 0..MaxFixed

\* The values assigned to the elements of a wrapped array; 256 is out of
\* the range of SUInt8.
ArrayNumbers == {1, 256}

\* The elements assigned to an array without a wrapper.
ArrayElements == {ScalarOf("SUInt8", 1), NewThrowing(<<"test error">>)}

\* The buffers given to deserialize of an array: the bytes 6, 7, 8, ... up
\* to one more than the longest fixed length.
ArrayBuffers == {[i \in 1..n |-> 5 + i] : n \in 0..(MaxFixed + 1)}

InitArray ==
  \/ \E n \in FixedLengths : Construct(NewSArrayWithWrapperOfLength(SUInt8, n))
  \/ \E n \in FixedLengths : Construct(NewSArrayOfLength(n, SUInt8))
  \/ Construct(SArrayWithWrapperOf(SUInt8, <<>>))
  \/ Construct(SArrayOf(<<>>))

\* The sequences assigned to the value of an array with and without a wrapper.
WrappedArrayValues == SeqsUpTo(ArrayNumbers, MaxStored)
ArrayValues == SeqsUpTo(ArrayElements, MaxStored)

AssignArray ==
  \/ /\ obj.cls = "SArrayWithWrapper"
     /\ Assign(WrappedArrayValues)
  \/ /\ obj.cls = "SArray"
     /\ Assign(ArrayValues)

NextArray ==
  \/ AssignArray
  \/ Serialize({NoOpts})
  \/ Deserialize(ArrayBuffers, {NoOpts})
  \/ GetSerializedLength({NoOpts})
  \/ ToJSON
  \/ RoundTrip({NoOpts})

SpecArray == InitArray /\ [][NextArray]_vars

----------------------------------------------------------------------------
(* Bitmasks: the classes of the test suite and of the README, and classes  *)
(* over 16-bit and 32-bit storage.                                         *)

\* new (SBitmask.of(wrapperType))() of a class with the given bitfields and
\* property initializers.
NewSBitmask(wrapperType, bitfields, props) ==
  [cls |-> "SBitmask", wrapperType |-> wrapperType, bitfields |-> bitfields,
   props |-> props, plain |-> <<>>, included |-> {}, excluded |-> {}]

Color8Bit ==
  NewSBitmask("SUInt8", <<Bitfield("r", 3), Bitfield("g", 3), Bitfield("b", 2)>>,
              [k \in {"r", "g", "b"} |-> Number(0)])

\* field1:1, field2:6 and @json(false) field3:1 over SUInt8, with the plain
\* property field4 = 'hello' and the getter @json(true) field5; plain holds
\* the own properties that are no bitfields, included and excluded the names
\* registered by @json(true) and @json(false).
TestBooleanObject ==
  [NewSBitmask("SUInt8",
               <<Bitfield("field1", 1), Bitfield("field2", 6), Bitfield("field3", 1)>>,
               [k \in {"field1", "field2", "field3"} |->
                  IF k = "field2" THEN Number(0) ELSE Boolean(FALSE)])
   EXCEPT !.plain = ("field4" :> JStr(<<"hello">>)),
          !.included = {"field5"},
          !.excluded = {"field3"}]

\* @bitfield(7) prop = 0 over SUInt8: the lengths do not add up
TestInvalidObjectA ==
  NewSBitmask("SUInt8", <<Bitfield("prop", 7)>>, [k \in {"prop"} |-> Number(0)])

\* @bitfield(8) prop = false over SUInt8: a boolean of eight bits
TestInvalidObjectB ==
  NewSBitmask("SUInt8", <<Bitfield("prop", 8)>>, [k \in {"prop"} |-> Boolean(FALSE)])

\* flag1:1, flag2:2, unused:6 over SUInt8, as the README declares it
MyBitmask ==
  NewSBitmask("SUInt8",
              <<Bitfield("flag1", 1), Bitfield("flag2", 2), Bitfield("unused", 6)>>,
              [k \in {"flag1", "flag2", "unused"} |->
                 IF k = "unused" THEN Number(0) ELSE Boolean(FALSE)])

Flags16Bit ==
  NewSBitmask("SUInt16LE", <<Bitfield("flag", 1), Bitfield("rest", 15)>>,
              [k \in {"flag", "rest"} |-> IF k = "flag" THEN Boolean(FALSE) ELSE Number(0)])

Flags32Bit ==
  NewSBitmask("SUInt32BE", <<Bitfield("top", 1), Bitfield("rest", 31)>>,
              [k \in {"top", "rest"} |-> Number(0)])

\* @bitfield(32) word = 0 over SUInt32LE: one bitfield of the whole storage
Wide32Bit ==
  NewSBitmask("SUInt32LE", <<Bitfield("word", 32)>>, [k \in {"word"} |-> Number(0)])

BitmaskClasses ==
  <<Color8Bit, TestBooleanObject, TestInvalidObjectA, TestInvalidObjectB, MyBitmask,
    Flags16Bit, Flags32Bit, Wide32Bit>>

\* The bytes the buffers given to deserialize of a bitmask repeat.
BitmaskBytes == {0, 37, 234, 255}

\* The buffers given to deserialize of obj: the storage width of each byte,
\* and the empty buffer.
BitmaskBuffers ==
  {<<>>} \cup {[i \in 1..serializedLength(obj.wrapperType) |-> b] : b \in BitmaskBytes}

\* The numbers assigned to value and to a property.
BitmaskValues == {0, 37, 234, 255}
\* The values assigned to a property that holds a value of the given type.
PropertyValues(type) ==
  CASE type = "number" -> {Number(31), OtherValue("string")}
    [] type = "boolean" -> {Boolean(TRUE), OtherValue("string")}
    [] OTHER -> {Number(1)}

InitBitmask == \E i \in 1..Len(BitmaskClasses) : Construct(BitmaskClasses[i])

\* obj.value = newValue
AssignValue ==
  \E newValue \in BitmaskValues :
    LET r == SBitmask_setValue(obj, newValue)
    IN  /\ obj.cls = "SBitmask"
        /\ obj' = r.obj
        /\ last' = [op |-> "setValue", pre |-> obj, opts |-> NoOpts,
                    buffer |-> NoBuffer, res |-> r, newValue |-> newValue]
        /\ UNCHANGED <<class, defaultEncoding>>

\* obj.value
ReadValue ==
  /\ obj.cls = "SBitmask"
  /\ last' = [op |-> "getValue", pre |-> obj, opts |-> NoOpts, buffer |-> NoBuffer,
              res |-> SBitmask_getValue(obj)]
  /\ UNCHANGED <<obj, class, defaultEncoding>>

\* obj[propertyKey] = value
AssignProperty ==
  /\ obj.cls = "SBitmask"
  /\ \E propertyKey \in DOMAIN obj.props :
     \E value \in PropertyValues(obj.props[propertyKey].type) :
    /\ obj' = [obj EXCEPT !.props[propertyKey] = value]
    /\ last' = [op |-> "assign", pre |-> obj, opts |-> NoOpts, buffer |-> NoBuffer,
                res |-> [ok |-> TRUE]]
    /\ UNCHANGED <<class, defaultEncoding>>

NextBitmask ==
  \/ AssignValue
  \/ ReadValue
  \/ AssignProperty
  \/ Serialize({NoOpts})
  \/ Deserialize(BitmaskBuffers, {NoOpts})
  \/ GetSerializedLength({NoOpts})
  \/ ToJSON
  \/ RoundTrip({NoOpts})

SpecBitmask == InitBitmask /\ [][NextBitmask]_vars

----------------------------------------------------------------------------
(* Records: the classes of the test suite and classes with a nested        *)
(* record, with a field that throws in first place and with a field        *)
(* defined by a getter.                                                    *)

\* new T() of an SObject class: the registry of the class and the
\* properties its constructor sets.
NewSObject(fieldSpecs, keys, props, accessors, included, excluded) ==
  [cls |-> "SObject", fieldSpecs |-> fieldSpecs, keys |-> keys, props |-> props,
   accessors |-> accessors, included |-> included, excluded |-> excluded]

NoProperties == [k \in {} |-> JNull]

\* new ThrowingObject('test error'): @field(SUInt16BE) prop1 = 0 and
\* @field() prop2 = new ThrowingSerializable(this.errorMessage)
ThrowingObject ==
  NewSObject(<<WrappedFieldSpec("prop1", NewScalar("SUInt16BE")), FieldSpec("prop2")>>,
             <<"errorMessage", "prop1", "prop2">>,
             ("errorMessage" :> Plain(JStr(<<"test error">>)))
               @@ ("prop1" :> 0) @@ ("prop2" :> NewThrowing(<<"test error">>)),
             NoProperties, <<>>, {})

\* @field() bad = new ThrowingSerializable('test error') and
\* @field(SUInt8) n = 0
FirstThrowingObject ==
  NewSObject(<<FieldSpec("bad"), WrappedFieldSpec("n", SUInt8)>>,
             <<"bad", "n">>,
             ("bad" :> NewThrowing(<<"test error">>)) @@ ("n" :> 0),
             NoProperties, <<>>, {})

\* @field(SUInt8) id = 0 and @field() inner = new ThrowingObject('test error')
OuterObject ==
  NewSObject(<<WrappedFieldSpec("id", SUInt8), FieldSpec("inner")>>,
             <<"id", "inner">>,
             ("id" :> 0) @@ ("inner" :> ThrowingObject),
             NoProperties, <<>>, {})

\* @field(SUInt8) x = 0 and @field(SUInt16BE) @json(false) y = 0
PointObject ==
  NewSObject(<<WrappedFieldSpec("x", SUInt8), WrappedFieldSpec("y", NewScalar("SUInt16BE"))>>,
             <<"x", "y">>,
             ("x" :> 0) @@ ("y" :> 0),
             NoProperties, <<>>, {"y"})

\* @field(SUInt8) n = 0 and
\* @field() @json(true) get computed() { return new ThrowingSerializable('test error') }
GetterObject ==
  NewSObject(<<WrappedFieldSpec("n", SUInt8), FieldSpec("computed")>>,
             <<"n">>,
             ("n" :> 0),
             ("computed" :> NewThrowing(<<"test error">>)),
             <<"computed">>, {})

\* new TestObjectD(): prop1 = 0; @json(true) prop2 = 0; @json(false) prop3 = 0;
\* @json(false) @field(SUInt8) prop4 = 0; @field(SUInt8) @json(false) prop5 = 0;
\* @json(true) get prop6() and @json(false) @field(SUInt8) get prop7(), both
\* returning this.prop1 + this.prop2
TestObjectD ==
  NewSObject(<<WrappedFieldSpec("prop4", SUInt8), WrappedFieldSpec("prop5", SUInt8),
               WrappedFieldSpec("prop7", SUInt8)>>,
             <<"prop1", "prop2", "prop3", "prop4", "prop5">>,
             ("prop1" :> Plain(JNum(0))) @@ ("prop2" :> Plain(JNum(0)))
               @@ ("prop3" :> Plain(JNum(0))) @@ ("prop4" :> 0) @@ ("prop5" :> 0),
             ("prop6" :> SumGetter("prop1", "prop2", FALSE))
               @@ ("prop7" :> SumGetter("prop1", "prop2", TRUE)),
             <<"prop2", "prop6">>, {"prop3", "prop4", "prop5", "prop7"})

\* @field(SArray.of(SUInt8)) list = [0, 0] and @field(SUInt16BE) tail = 0
ListObject ==
  NewSObject(<<WrappedFieldSpec("list", SArrayWithWrapperOf(SUInt8, <<>>)),
               WrappedFieldSpec("tail", NewScalar("SUInt16BE"))>>,
             <<"list", "tail">>,
             ("list" :> <<0, 0>>) @@ ("tail" :> 0),
             NoProperties, <<>>, {})

ObjectClasses ==
  <<ThrowingObject, FirstThrowingObject, OuterObject, PointObject, GetterObject,
    TestObjectD, ListObject>>

\* The numbers assigned to a field with a wrapper; 256 is out of the range
\* of SUInt8.
FieldNumbers == {1, 256}

\* The buffers given to deserialize of a record: the bytes 6, 7, 8 and the
\* shorter buffers they start with.
ObjectBuffers == {[i \in 1..n |-> 5 + i] : n \in 0..3}

\* The own properties of o that hold the value of a field with a wrapper.
WrappedProperties(o) ==
  {getFieldSpecs(o)[i].propertyKey : i \in {j \in 1..Len(getFieldSpecs(o)) :
     getFieldSpecs(o)[j].hasWrapper}} \cap DOMAIN o.props

\* The values assigned to a field with a wrapper: numbers, numbers with and
\* without a label for an enum, or texts of up to three characters for a
\* string.
FieldTexts == {<<65>>, <<65, 66, 67>>}
FieldValues(o, propertyKey) ==
  CASE SerializableField(o, propertyKey).cls = "scalar" -> FieldNumbers
    [] SerializableField(o, propertyKey).cls = "enum" -> {JNum(1), JNum(2)}
    [] SerializableField(o, propertyKey).cls = "SArrayWithWrapper" -> {<<1>>, <<1, 2>>}
    [] OTHER -> FieldTexts

InitObject == \E i \in 1..Len(ObjectClasses) : Construct(ObjectClasses[i])

\* obj[propertyKey] = value, for a field with a wrapper
AssignField ==
  /\ obj.cls = "SObject"
  /\ \E propertyKey \in WrappedProperties(obj) :
     \E value \in FieldValues(obj, propertyKey) :
       /\ obj' = [obj EXCEPT !.props[propertyKey] = value]
       /\ last' = [op |-> "assign", pre |-> obj, opts |-> NoOpts, buffer |-> NoBuffer,
                   res |-> [ok |-> TRUE]]
       /\ UNCHANGED <<class, defaultEncoding>>

NextObject ==
  \/ AssignField
  \/ Serialize({NoOpts})
  \/ Deserialize(ObjectBuffers, {NoOpts})
  \/ GetSerializedLength({NoOpts})
  \/ ToJSON
  \/ RoundTrip({NoOpts})

SpecObject == InitObject /\ [][NextObject]_vars

----------------------------------------------------------------------------
(* Records and JSON: the class of the test suite with JSON settings, and   *)
(* classes with a nested record and with enum fields, under assignJSON,    *)
(* toJSON and the map of Serializables.                                    *)

\* @field(SUInt8.enum(TestEnum)) type = TestEnum.ZERO and
\* @field(SUInt8.enum(TestEnum)) @json(true) get kind() { return TestEnum.ONE }
KindObject ==
  NewSObject(<<WrappedFieldSpec("type", NewEnum("SUInt8", TestEnum)),
               WrappedFieldSpec("kind", NewEnum("SUInt8", TestEnum))>>,
             <<"type">>,
             ("type" :> JNum(0)),
             ("kind" :> ConstantGetter(JNum(1))),
             <<"kind">>, {})

\* @field(SUInt8) id = 0 and @field() start = new PointObject()
LineObject ==
  NewSObject(<<WrappedFieldSpec("id", SUInt8), FieldSpec("start")>>,
             <<"id", "start">>,
             ("id" :> 0) @@ ("start" :> PointObject),
             NoProperties, <<>>, {})

JSONClasses == <<PointObject, LineObject, TestObjectD, KindObject>>

\* The values given to assignJSON of a record that are no keyed structure.
NonObjects ==
  {JStr(<<"not an object">>), JNum(1), JBool(TRUE), JNull, JUndefined,
   JArr(<<>>), JArr(<<JNum(7)>>)}

\* {propertyKey: jsonValue}
JObj1(propertyKey, jsonValue) == JObj(<<propertyKey>>, propertyKey :> jsonValue)

\* The JSON values given for the property propertyKey of o: numbers or
\* labels for a field with a wrapper, an object with one key for a nested
\* record, numbers for a plain property.
JSONValuesFor(o, propertyKey) ==
  IF propertyKey \in WrappedFieldNames(o)
  THEN IF SerializableField(o, propertyKey).cls = "enum"
       THEN {JStr(<<"ONE">>), JStr(<<"TWO">>)}
       ELSE {JNum(2)}
  ELSE IF o.props[propertyKey].cls = "SObject"
  THEN {JObj1(k, JNum(3)) : k \in WrappedProperties(o.props[propertyKey])}
  ELSE IF o.props[propertyKey].cls = "plain" THEN {JNum(1)}
  ELSE {}

\* The objects given to assignJSON of o: the empty object, objects with one
\* key that names an own property or no property of o, and one object with
\* two keys.
JSONObjectsFor(o) ==
  {JObj(<<>>, NoProperties), JObj1("extra", JNum(1))}
    \cup UNION {{JObj1(k, v) : v \in JSONValuesFor(o, k)} : k \in DOMAIN o.props}
    \cup (IF {"prop1", "prop2"} \subseteq DOMAIN o.props /\ JSONValuesFor(o, "prop2") # {}
          THEN {JObj(<<"prop1", "prop2">>, ("prop1" :> JNum(1)) @@ ("prop2" :> JNum(2)))}
          ELSE {})

\* The maps given to assignSerializableMap of o: its own map, the map of
\* a new instance, and a map with a key that names no field.
SerializableMapsFor(o) ==
  {SObject_toSerializableMap(o), SObject_toSerializableMap(class),
   [keys |-> <<"unknown">>, vals |-> ("unknown" :> SUInt8)]}

InitJSON == \E i \in 1..Len(JSONClasses) : Construct(JSONClasses[i])

\* obj = new T()
New ==
  /\ obj' = class
  /\ last' = [op |-> "new", pre |-> class, opts |-> NoOpts, buffer |-> NoBuffer,
              res |-> [ok |-> TRUE]]
  /\ UNCHANGED <<class, defaultEncoding>>

\* obj.assignSerializableMap(serializableMap)
AssignSerializableMap ==
  \E serializableMap \in SerializableMapsFor(obj) :
    LET r == SObject_assignSerializableMap(obj, serializableMap)
    IN  /\ obj' = r.obj
        /\ last' = [op |-> "assignSerializableMap", pre |-> obj, opts |-> NoOpts,
                    buffer |-> NoBuffer, res |-> r, map |-> serializableMap]
        /\ UNCHANGED <<class, defaultEncoding>>

\* The operations on a record whose fields hold unwrapped values; after
\* assignSerializableMap the record is replaced by a new one.
NextJSON ==
  \/ /\ last.op # "assignSerializableMap"
     /\ \/ AssignField
        \/ AssignJSON(JSONObjectsFor(obj) \cup NonObjects)
        \/ ToJSON
        \/ Serialize({NoOpts})
        \/ AssignSerializableMap
  \/ New

SpecJSON == InitJSON /\ [][NextJSON]_vars

----------------------------------------------------------------------------
(* Enums: the enum of the test suite over a one-byte and a two-byte class.  *)

EnumClasses == <<NewEnum("SUInt8", TestEnum), NewEnum("SUInt16LE", TestEnum)>>

\* The values given to assignJSON of an enum: numbers with and without a
\* label, the labels, and strings that are no label.
EnumJSONValues ==
  {JNum(0), JNum(1), JNum(2), JStr(<<"ZERO">>), JStr(<<"ONE">>), JStr(<<"TWO">>),
   JStr(<<"1">>), JStr(<<"toString">>)}

EnumBuffers == {<<>>, <<1>>, <<7, 0>>}

InitEnum == \E i \in 1..Len(EnumClasses) : Construct(EnumClasses[i])

NextEnum ==
  \/ AssignJSON(EnumJSONValues)
  \/ ToJSON
  \/ Serialize({NoOpts})
  \/ Deserialize(EnumBuffers, {NoOpts})
  \/ GetSerializedLength({NoOpts})

SpecEnum == InitEnum /\ [][NextEnum]_vars

----------------------------------------------------------------------------
(* The library as a whole: the scalar, string and buffer wrappers, with    *)
(* an array of each kind, records and bitmasks, under the encodings of the *)
(* options and of setDefaultEncoding.                                      *)

\* @field(SUInt8) id = 0 and @field(SStringNT.ofLength(3)) name = ''
NamedObject ==
  NewSObject(<<WrappedFieldSpec("id", SUInt8),
               WrappedFieldSpec("name", StringOfLength("SStringNT", 3))>>,
             <<"id", "name">>,
             ("id" :> 0) @@ ("name" :> <<>>),
             NoProperties, <<>>, {})

WrapperClasses ==
  <<SUInt8, NewScalar("SInt16LE"), NewScalar("SUInt16BE"),
    NewSStringNT, StringOfLength("SStringNT", 3),
    NewSString, StringOfLength("SString", 2),
    NewSBuffer, NewSDynamicBuffer("SUInt8")>>

CompositeClasses ==
  <<NewSArrayWithWrapperOfLength(SUInt8, MaxFixed), NewSArrayOfLength(MaxFixed, SUInt8),
    SArrayWithWrapperOf(SUInt8, <<>>),
    PointObject, NamedObject, Color8Bit, Flags32Bit>>

IsWrapper(o) == o.cls \in {"scalar", "SStringNT", "SString", "SBuffer", "SDynamicBuffer"}
IsString(o) == o.cls \in {"SStringNT", "SString"}

\* The numbers assigned to a scalar: in and out of the range of each class.
ScalarValues == {-1, 1, 255, 256}

\* The texts assigned to a string: empty, ASCII of one and of three
\* characters, e-acute (one byte in Latin-1 and two in UTF-8), the euro sign
\* (three bytes in UTF-8 and not in Latin-1) and a text with a NUL.
Texts == {<<>>, <<65>>, <<65, 66, 67>>, <<233>>, <<8364>>, <<65, 0>>}

\* The bytes assigned to a buffer.
Blobs == {<<>>, <<7>>, <<7, 8>>}

ValuesFor(o) ==
  CASE o.cls = "scalar" -> ScalarValues
    [] IsString(o) -> Texts
    [] OTHER -> Blobs

\* The buffers given to deserialize of a scalar, of a string (with and
\* without a NUL, with e-acute in UTF-8 and in Latin-1) and of a buffer
\* (with a length prefix below, at and above the bytes that follow).
ScalarBuffers == {<<>>, <<255>>, <<1, 2>>, <<128, 0, 1>>}
TextBuffers == {<<>>, <<65>>, <<65, 0, 66>>, <<195, 169>>, <<233>>, <<65, 66, 67>>}
BlobBuffers == {<<>>, <<0>>, <<1, 7>>, <<2, 7>>, <<1, 7, 8>>}

BuffersFor(o) ==
  CASE o.cls = "scalar" -> ScalarBuffers
    [] IsString(o) -> TextBuffers
    [] o.cls \in {"SBuffer", "SDynamicBuffer"} -> BlobBuffers
    [] o.cls = "SBitmask" -> BitmaskBuffers
    [] o.cls = "SObject" -> ObjectBuffers
    [] OTHER -> ArrayBuffers

\* The options of serialize and deserialize: none, a known encoding and an
\* unknown one, given to the classes that hold text.
Encodings == {"utf-8", "latin1", "klingon"}
Opts == {NoOpts, WithEncoding("latin1"), WithEncoding("klingon")}
HasText(o) ==
  \/ IsString(o)
  \/ /\ o.cls = "SObject"
     /\ \E i \in 1..Len(getFieldSpecs(o)) : IsString(getFieldSpecs(o)[i].wrapperType)
OptsFor(o) == IF HasText(o) THEN Opts ELSE {NoOpts}

Init ==
  \/ \E i \in 1..Len(WrapperClasses) : Construct(WrapperClasses[i])
  \/ \E i \in 1..Len(CompositeClasses) : Construct(CompositeClasses[i])

AssignWrapper ==
  /\ IsWrapper(obj)
  /\ Assign(ValuesFor(obj))

\* setDefaultEncoding(encoding)
SetDefaultEncoding ==
  \E encoding \in Encodings :
    IF ~encodingExists(encoding)
    THEN /\ last' = [op |-> "setDefaultEncoding", pre |-> obj, opts |-> NoOpts,
                     buffer |-> NoBuffer, encoding |-> encoding,
                     res |-> Fail(Error(<<"Unknown text encoding: ", encoding>>))]
         /\ UNCHANGED <<obj, class, defaultEncoding>>
    ELSE /\ defaultEncoding' = encoding
         /\ last' = [op |-> "setDefaultEncoding", pre |-> obj, opts |-> NoOpts,
                     buffer |-> NoBuffer, encoding |-> encoding, res |-> [ok |-> TRUE]]
         /\ UNCHANGED <<obj, class>>

Next ==
  \/ AssignWrapper
  \/ AssignArray
  \/ AssignField
  \/ AssignValue
  \/ ReadValue
  \/ AssignProperty
  \/ SetDefaultEncoding
  \/ Serialize(OptsFor(obj))
  \/ Deserialize(BuffersFor(obj), OptsFor(obj))
  \/ GetSerializedLength(OptsFor(obj))
  \/ ToJSON
  \/ RoundTrip(OptsFor(obj))

Spec == Init /\ [][Next]_vars

----------------------------------------------------------------------------
(* Strings: SStringNT and SString, dynamically sized and ofLength(N) for   *)
(* every N up to MaxLength, under the encodings of the options and of      *)
(* setDefaultEncoding.                                                     *)

StringClasses ==
  {NewSStringNT, NewSString}
    \cup {StringOfLength(cls, n) : cls \in {"SStringNT", "SString"}, n \in 0..MaxLength}

\* The texts assigned to a string: '', 'cat', and e-acute followed by 't',
\* three bytes of UTF-8 and two of Latin-1.
StringTexts == {<<>>, <<99, 97, 116>>, <<233, 116>>}

\* The buffers given to deserialize of a string: with a zero byte in first,
\* second and fourth place and without one.
StringBuffers ==
  {<<>>, <<0, 99>>, <<99, 0, 116>>, <<99, 97, 116, 0, 0>>, <<195, 169>>,
   <<99, 97, 116, 115, 33, 33>>}

InitString == \E t \in StringClasses : Construct(t)

NextString ==
  \/ Assign(StringTexts)
  \/ SetDefaultEncoding
  \/ Serialize(Opts)
  \/ Deserialize(StringBuffers, Opts)
  \/ GetSerializedLength(Opts)
  \/ RoundTrip(Opts)

SpecString == InitString /\ [][NextString]_vars

----------------------------------------------------------------------------
(* Buffers: SBuffer and SDynamicBuffer with a one-byte length prefix, and   *)
(* the Buffer the caller keeps: the one it gave to deserialize or the one   *)
(* serialize returned.  `last` records that Buffer in held and the memory   *)
(* it shares with the value of the instance in share.                       *)

BufferClasses == {NewSBuffer, NewSDynamicBuffer("SUInt8")}

\* The bytes the caller writes into its Buffer.
WrittenBytes == {0, 9}

InitBuffer == \E t \in BufferClasses : Construct(t)

\* const held = obj.serialize()
SerializeBuffer ==
  LET r == serialize(obj, NoOpts)
  IN  /\ last' = [op |-> "serialize", pre |-> obj, opts |-> NoOpts, buffer |-> NoBuffer,
                  res |-> r, held |-> r.buf,
                  share |-> IF obj.cls = "SBuffer" THEN SBuffer_serializeShare(obj)
                            ELSE SDynamicBuffer_serializeShare(obj)]
      /\ UNCHANGED <<obj, class, defaultEncoding>>

\* obj.deserialize(held)
DeserializeBuffer ==
  \E buffer \in BlobBuffers :
    LET r == deserialize(obj, buffer, NoOpts)
    IN  /\ obj' = r.obj
        /\ last' = [op |-> "deserialize", pre |-> obj, opts |-> NoOpts, buffer |-> buffer,
                    res |-> r, held |-> buffer,
                    share |-> IF ~r.ok THEN NoShare
                              ELSE IF obj.cls = "SBuffer"
                              THEN SBuffer_deserializeShare(obj, buffer)
                              ELSE SDynamicBuffer_deserializeShare(obj, buffer)]
        /\ UNCHANGED <<class, defaultEncoding>>

\* held[i] = b, after a call that returned: the byte is also written to the
\* value of the instance where it shares the memory of held.
WriteHeld ==
  /\ last.op \in {"serialize", "deserialize", "write"}
  /\ last.res.ok
  /\ \E i \in 1..Len(last.held), b \in WrittenBytes :
       LET j == i - last.share.offset
       IN  /\ obj' = IF last.share.shared /\ j >= 1 /\ j <= Len(obj.value)
                     THEN [obj EXCEPT !.value[j] = b]
                     ELSE obj
           /\ last' = [op |-> "write", pre |-> obj, opts |-> NoOpts, buffer |-> NoBuffer,
                       res |-> [ok |-> TRUE], held |-> [last.held EXCEPT ![i] = b],
                       share |-> last.share]
  /\ UNCHANGED <<class, defaultEncoding>>

NextBuffer ==
  \/ Assign(Blobs)
  \/ SerializeBuffer
  \/ DeserializeBuffer
  \/ WriteHeld
  \/ GetSerializedLength({NoOpts})

SpecBuffer == InitBuffer /\ [][NextBuffer]_vars

----------------------------------------------------------------------------
(* The registry of record classes.  SObjectMetadata is stored under         *)
(* SOBJECT_METADATA_KEY on a prototype; the state is `protos`, which gives  *)
(* for each class the metadata its prototype holds as an own property, or   *)
(* NoMetadata.  Reading the key on a prototype follows the prototype chain, *)
(* so a class whose prototype has no metadata of its own reads that of its  *)
(* nearest ancestor.  The initializers that @field and @json add run in     *)
(* every construction of an instance, those of the parent class first.      *)

NoMetadata == [defined |-> FALSE]

\* class PointA extends SObject { @field(SUInt8) @json(false) x = 0; }
\* class PointB extends PointA { @field(SUInt16LE) x = 0;
\*                                @field() @json(true) z = new SUInt8(); }
RegistryClasses == {"PointA", "PointB"}
Parent == ("PointA" :> "SObject") @@ ("PointB" :> "PointA")

FieldDecorator(fieldSpec) == [kind |-> "field", fieldSpec |-> fieldSpec]
JsonDecorator(propertyKey, shouldIncludeInJson) ==
  [kind |-> "json", propertyKey |-> propertyKey,
   shouldIncludeInJson |-> shouldIncludeInJson]

\* The decorators of the body of each class, in the order they are applied.
Decorators ==
  ("PointA" :> <<JsonDecorator("x", FALSE), FieldDecorator(WrappedFieldSpec("x", SUInt8))>>)
    @@ ("PointB" :> <<FieldDecorator(WrappedFieldSpec("x", NewScalar("SUInt16LE"))),
                      JsonDecorator("z", TRUE), FieldDecorator(FieldSpec("z"))>>)

RECURSIVE Initializers(_)
\* The initializers that run when an instance of t is constructed.
Initializers(t) ==
  IF t = "SObject" THEN <<>> ELSE Initializers(Parent[t]) \o Decorators[t]

\* The names that the body of t and of its ancestors declare with @field.
DeclaredFields(t) ==
  {Initializers(t)[i].fieldSpec.propertyKey :
     i \in {j \in 1..Len(Initializers(t)) : Initializers(t)[j].kind = "field"}}

\* The names that the body of t and of its ancestors decorate.
DeclaredNames(t) ==
  DeclaredFields(t) \cup
    {Initializers(t)[i].propertyKey :
       i \in {j \in 1..Len(Initializers(t)) : Initializers(t)[j].kind = "json"}}

RECURSIVE PrototypeWith(_, _)
\* The prototype that Object.getPrototypeOf(targetInstance)[SOBJECT_METADATA_KEY]
\* is read from, targetInstance being an instance of t: that of t or of its
\* nearest ancestor that holds metadata, "SObject" standing for none.
PrototypeWith(protos, t) ==
  IF t = "SObject" THEN "SObject"
  ELSE IF protos[t].defined THEN t
  ELSE PrototypeWith(protos, Parent[t])

\* getSObjectMetadata(targetInstance)
getSObjectMetadata(protos, t) ==
  IF PrototypeWith(protos, t) = "SObject" THEN NoMetadata
  ELSE protos[PrototypeWith(protos, t)]

\* getFieldSpecs(targetInstance) of an instance of t
getFieldSpecsOf(protos, t) ==
  IF getSObjectMetadata(protos, t).defined
  THEN getSObjectMetadata(protos, t).fieldSpecs
  ELSE <<>>

\* A faulty variant of registerField: it does not look the name up in
\* propertyKeys.
registerFieldAgain(protos, t, fieldSpec) ==
  LET owner == PrototypeWith(protos, t)
      propertyKey == fieldSpec.propertyKey
  IN  IF owner # "SObject"
      THEN [protos EXCEPT
              ![owner].propertyKeys = @ \cup {propertyKey},
              ![owner].fieldSpecs = Append(@, fieldSpec),
              ![owner].fieldSpecMap = (propertyKey :> fieldSpec) @@ @]
      ELSE [protos EXCEPT
              ![t] = [defined |-> TRUE,
                      fieldSpecs |-> <<fieldSpec>>,
                      fieldSpecMap |-> (propertyKey :> fieldSpec),
                      propertyKeys |-> {propertyKey},
                      jsonIncludedPropertyKeys |-> {},
                      jsonExcludedPropertyKeys |-> {}]]

\* registerField(targetInstance, propertyKey, wrapperType), targetInstance
\* being an instance of t: the prototypes after the call.
registerField(protos, t, fieldSpec) ==
  LET owner == PrototypeWith(protos, t)
      propertyKey == fieldSpec.propertyKey
  IN  IF owner # "SObject"
      THEN IF propertyKey \in protos[owner].propertyKeys THEN protos
           ELSE [protos EXCEPT
                   ![owner].propertyKeys = @ \cup {propertyKey},
                   ![owner].fieldSpecs = Append(@, fieldSpec),
                   ![owner].fieldSpecMap = (propertyKey :> fieldSpec) @@ @]
      ELSE [protos EXCEPT
              ![t] = [defined |-> TRUE,
                      fieldSpecs |-> <<fieldSpec>>,
                      fieldSpecMap |-> (propertyKey :> fieldSpec),
                      propertyKeys |-> {propertyKey},
                      jsonIncludedPropertyKeys |-> {},
                      jsonExcludedPropertyKeys |-> {}]]

ConflictError(propertyKey) ==
  Error(<<"Field ", propertyKey, " has conflicting JSON settings">>)

\* registerFieldJsonSetting(targetInstance, propertyKey, shouldIncludeInJson)
registerFieldJsonSetting(protos, t, propertyKey, shouldIncludeInJson) ==
  LET owner == IF PrototypeWith(protos, t) = "SObject" THEN t
               ELSE PrototypeWith(protos, t)
      withMetadata ==
        IF PrototypeWith(protos, t) # "SObject" THEN protos
        ELSE [protos EXCEPT
                ![t] = [defined |-> TRUE,
                        fieldSpecs |-> <<>>,
                        fieldSpecMap |-> <<>>,
                        propertyKeys |-> {},
                        jsonIncludedPropertyKeys |->
                          IF shouldIncludeInJson THEN {propertyKey} ELSE {},
                        jsonExcludedPropertyKeys |->
                          IF shouldIncludeInJson THEN {} ELSE {propertyKey}]]
      metadata == withMetadata[owner]
  IN  IF shouldIncludeInJson
      THEN IF propertyKey \in metadata.jsonExcludedPropertyKeys
           THEN [ok |-> FALSE, obj |-> withMetadata, err |-> ConflictError(propertyKey)]
           ELSE [ok |-> TRUE,
                 obj |-> [withMetadata EXCEPT
                            ![owner].jsonIncludedPropertyKeys = @ \cup {propertyKey}]]
      ELSE IF propertyKey \in metadata.jsonIncludedPropertyKeys
           THEN [ok |-> FALSE, obj |-> withMetadata, err |-> ConflictError(propertyKey)]
           ELSE [ok |-> TRUE,
                 obj |-> [withMetadata EXCEPT
                            ![owner].jsonExcludedPropertyKeys = @ \cup {propertyKey}]]

RECURSIVE runInitializers(_, _, _, _)
\* The initializers of a new instance of t from position i on: each calls
\* registerField or registerFieldJsonSetting with the instance, and the
\* first that throws ends the construction.
runInitializers(protos, t, initializers, i) ==
  IF i > Len(initializers) THEN [ok |-> TRUE, obj |-> protos]
  ELSE IF initializers[i].kind = "field"
  THEN runInitializers(registerField(protos, t, initializers[i].fieldSpec),
                       t, initializers, i + 1)
  ELSE LET r == registerFieldJsonSetting(protos, t, initializers[i].propertyKey,
                                         initializers[i].shouldIncludeInJson)
       IN  IF r.ok THEN runInitializers(r.obj, t, initializers, i + 1) ELSE r

\* No class has been instantiated.
NoPrototypes == [cls |-> "prototypes", protos |-> [t \in RegistryClasses |-> NoMetadata]]

\* The field specs given to registerField for a name.
FieldSpecsFor(propertyKey) ==
  {FieldSpec(propertyKey), WrappedFieldSpec(propertyKey, SUInt8)}

InitRegistry == Construct(NoPrototypes)

\* new T()
NewInstance ==
  \E t \in RegistryClasses :
    LET r == runInitializers(obj.protos, t, Initializers(t), 1)
    IN  /\ obj' = [obj EXCEPT !.protos = r.obj]
        /\ last' = [op |-> "newInstance", pre |-> obj, opts |-> NoOpts,
                    buffer |-> NoBuffer, res |-> r, type |-> t]
        /\ UNCHANGED <<class, defaultEncoding>>

\* registerField(instance of t, propertyKey, wrapperType)
RegisterField ==
  \E t \in RegistryClasses :
    \E propertyKey \in DeclaredNames(t) :
      \E fieldSpec \in FieldSpecsFor(propertyKey) :
        /\ obj' = [obj EXCEPT !.protos = registerField(obj.protos, t, fieldSpec)]
        /\ last' = [op |-> "registerField", pre |-> obj, opts |-> NoOpts,
                    buffer |-> NoBuffer, res |-> [ok |-> TRUE], type |-> t,
                    fieldSpec |-> fieldSpec]
        /\ UNCHANGED <<class, defaultEncoding>>

\* registerFieldJsonSetting(instance of t, propertyKey, shouldIncludeInJson)
RegisterFieldJsonSetting ==
  \E t \in RegistryClasses :
    \E propertyKey \in DeclaredNames(t), shouldIncludeInJson \in BOOLEAN :
      LET r == registerFieldJsonSetting(obj.protos, t, propertyKey, shouldIncludeInJson)
      IN  /\ obj' = [obj EXCEPT !.protos = r.obj]
          /\ last' = [op |-> "registerFieldJsonSetting", pre |-> obj, opts |-> NoOpts,
                      buffer |-> NoBuffer, res |-> r, type |-> t,
                      propertyKey |-> propertyKey,
                      shouldIncludeInJson |-> shouldIncludeInJson]
          /\ UNCHANGED <<class, defaultEncoding>>

NextRegistry ==
  \/ NewInstance
  \/ RegisterField
  \/ RegisterFieldJsonSetting

SpecRegistry == InitRegistry /\ [][NextRegistry]_vars

----------------------------------------------------------------------------
(* Properties of arrays.                                                   *)

IsArray(o) == o.cls \in {"SArray", "SArrayWithWrapper"}
IsFixedArray(o) == IsArray(o) /\ o.hasLength

\* The array of Serializable elements that the operations of o work on.
AsSArray(o) ==
  CASE o.cls = "SArrayWithWrapper" -> SArrayWithWrapper_toSArray(o)
    [] o.cls = "SObject" -> toSArray(o)
    [] OTHER -> o

\* The elements an operation on the array before the last call goes over.
ViewBefore == mapSArrayElements(AsSArray(last.pre))

\* The elements of the array after the last call.
ValueAfter == AsSArray(obj).value

\* What the last operation gives on the element at position i (from 0) of
\* the view, the elements before it having taken their bytes.
ElementResult(i) ==
  CASE last.op = "serialize" -> serialize(ViewBefore[i + 1], last.opts)
    [] last.op = "getSerializedLength" -> getSerializedLength(ViewBefore[i + 1], last.opts)
    [] last.op = "toJSON" -> toJSON(ViewBefore[i + 1])
    [] last.op = "deserialize" ->
         deserialize(ViewBefore[i + 1],
                     SliceFrom(last.buffer,
                               SumSeq([j \in 1..i |->
                                  getSerializedLength(ViewBefore[j], last.opts).len])),
                     last.opts)

\* C4: when serialize, deserialize or toJSON of an array fails, the error is
\* an SArrayError whose index is the position of the first element that
\* throws, whose element is that element, whose cause is the error the
\* element threw and whose message is "Error at element {index}: " followed
\* by the message of the cause; a failed deserialize leaves the stored
\* elements after that position as they were.
C4_IndexedError ==
  (IsArray(last.pre) /\ last.op \in {"serialize", "deserialize", "toJSON"}
     /\ ~last.res.ok) =>
    LET e == last.res.err
    IN  /\ e.name = "SArrayError"
        /\ e.index \in 0..(Len(ViewBefore) - 1)
        /\ \A j \in 0..(e.index - 1) : ElementResult(j).ok
        /\ ~ElementResult(e.index).ok
        /\ e.cause = ElementResult(e.index).err
        /\ e.element = ViewBefore[e.index + 1]
        /\ e.message = <<"Error at element ", IndexText(e.index), ": ">> \o e.cause.message
        /\ last.op = "deserialize" =>
             \A j \in (e.index + 2)..Len(last.pre.value) :
               obj.value[j] = last.pre.value[j]

\* An operation failed at the second element with a third element stored.
C4_Witness ==
  /\ IsArray(last.pre) /\ last.op \in {"serialize", "deserialize", "toJSON"}
  /\ ~last.res.ok
  /\ last.res.err.index = 1
  /\ Len(last.pre.value) > 2
  /\ (last.pre.hasLength => last.pre.length > 1)

\* A successful deserialize of an ofLength(N) array.
FixedDecoded ==
  IsFixedArray(last.pre) /\ last.op = "deserialize" /\ last.res.ok

\* The N values a successful deserialize read are buffer[1..N] for one-byte
\* elements: position i of the stored sequence holds byte i.
HoldsBytesInOrder ==
  \A i \in 1..last.pre.length :
    /\ i <= Len(ValueAfter)
    /\ serialize(ValueAfter[i], last.opts).ok
    /\ serialize(ValueAfter[i], last.opts).buf = <<last.buffer[i]>>

\* C5 as stated: after a successful deserialize of an ofLength(N) array the
\* stored sequence has exactly N elements, whatever its length was.
C5_ExactlyN ==
  FixedDecoded =>
    /\ Len(obj.value) = last.pre.length
    /\ HoldsBytesInOrder
    /\ last.res.n = last.pre.length

\* C5: after a successful deserialize of an ofLength(N) array the stored
\* sequence has N elements if it had at most N before and keeps its length
\* if it had more; its first N elements hold the N values read from the
\* buffer in order, and the bytes of N elements are consumed.
C5_AtLeastN ==
  FixedDecoded =>
    /\ Len(obj.value) = Max(Len(last.pre.value), last.pre.length)
    /\ HoldsBytesInOrder
    /\ last.res.n = last.pre.length

\* A successful deserialize into a longer and into a shorter stored sequence.
C5_Witness ==
  /\ FixedDecoded
  /\ last.pre.length > 0
  /\ Len(last.pre.value) > last.pre.length
C5_WitnessShorter ==
  /\ FixedDecoded
  /\ Len(last.pre.value) < last.pre.length

\* An operation on an ofLength(N) array that stores more than N elements.
HasExcess ==
  /\ IsFixedArray(last.pre)
  /\ Len(last.pre.value) > last.pre.length
  /\ last.op \in {"serialize", "deserialize", "getSerializedLength", "toJSON"}

\* The array before the last call without its elements at index >= N, and
\* those elements.
WithoutExcess == [last.pre EXCEPT !.value = SubSeq(@, 1, last.pre.length)]
Excess == SubSeq(last.pre.value, last.pre.length + 1, Len(last.pre.value))

\* C6: on an ofLength(N) array that stores more than N elements, serialize,
\* getSerializedLength and toJSON give what they give without the elements
\* at index >= N, deserialize succeeds or fails, consumes and decodes as it
\* does without them, and after deserialize those elements are stored
\* unchanged at their positions.
C6_ExcessInvisible ==
  HasExcess =>
    CASE last.op = "serialize" -> last.res = serialize(WithoutExcess, last.opts)
      [] last.op = "getSerializedLength" ->
           last.res = getSerializedLength(WithoutExcess, last.opts)
      [] last.op = "toJSON" -> last.res = toJSON(WithoutExcess)
      [] last.op = "deserialize" ->
           LET r == deserialize(WithoutExcess, last.buffer, last.opts)
           IN  /\ last.res.ok = r.ok
               /\ r.ok => last.res.n = r.n
               /\ ~r.ok => last.res.err = r.err
               /\ obj.value = r.obj.value \o Excess

\* deserialize succeeded although the last stored element, at index >= N,
\* throws on every operation.
C6_Witness ==
  /\ HasExcess
  /\ last.pre.cls = "SArray"
  /\ last.pre.length > 0
  /\ last.pre.value[Len(last.pre.value)].cls = "throwing"
  /\ last.op = "deserialize"
  /\ last.res.ok

\* The N elements an ofLength(N) array encodes: the first min(len, N)
\* stored elements, then default-constructed ones.
ExpectedElement(i) ==
  IF i <= Len(last.pre.value) THEN AsSArray(last.pre).value[i]
  ELSE AsSArray(last.pre).elementType

\* C7: serialize of an ofLength(N) array returns the concatenation in index
\* order of the encodings of the first min(len, N) stored elements and of
\* N - min(len, N) default-constructed elements, getSerializedLength the
\* sum of their N sizes, and toJSON their N JSON values.
C7_ExactlyNEncodings ==
  (IsFixedArray(last.pre) /\ last.res.ok
     /\ last.op \in {"serialize", "getSerializedLength", "toJSON"}) =>
    LET N == last.pre.length
    IN  CASE last.op = "serialize" ->
               /\ \A i \in 1..N : serialize(ExpectedElement(i), last.opts).ok
               /\ last.res.buf =
                    Concat([i \in 1..N |-> serialize(ExpectedElement(i), last.opts).buf])
          [] last.op = "getSerializedLength" ->
               last.res.len =
                 SumSeq([i \in 1..N |->
                           getSerializedLength(ExpectedElement(i), last.opts).len])
          [] last.op = "toJSON" ->
               /\ \A i \in 1..N : toJSON(ExpectedElement(i)).ok
               /\ last.res.json = JArr([i \in 1..N |-> toJSON(ExpectedElement(i)).json])

\* An array of length 2 that stores one element serialized to that element
\* and one zero byte.
C7_Witness ==
  /\ IsFixedArray(last.pre)
  /\ last.pre.length = 2
  /\ Len(last.pre.value) = 1
  /\ last.op = "serialize"
  /\ last.res.ok
  /\ last.res.buf = <<1, 0>>

----------------------------------------------------------------------------
(* Properties of bitmasks.                                                 *)

IsBitmask(o) == o.cls = "SBitmask"

\* Whether the declared bit-lengths of bitmask o add up to its storage width.
LengthsMatch(o) ==
  validateLength(getSBitfieldSpecs(o), serializedLength(o.wrapperType))

\* The total bit-length of the bitfields declared after position i.
OffsetOf(o, i) ==
  SumSeq([j \in 1..(Len(getSBitfieldSpecs(o)) - i) |-> getSBitfieldSpecs(o)[i + j].length])

\* Whether v is the most-significant-first packing of the properties of o:
\* v is not negative, and the bits of each field, masked to its bit-length,
\* are the bits of v above the bits of the fields declared after it.
IsPackingOf(v, o) ==
  /\ v >= 0
  /\ \A i \in 1..Len(getSBitfieldSpecs(o)) :
       \A k \in 0..(getSBitfieldSpecs(o)[i].length - 1) :
         Bit(v, OffsetOf(o, i) + k)
           = Bit(OrZero(o.props[getSBitfieldSpecs(o)[i].propertyKey]), k)

\* C8: for a bitmask whose bit-lengths add up to the storage width, the
\* packed value is the sum over the fields of the field value masked to its
\* bit-length and shifted left by the total bit-length of the fields
\* declared after it.
C8_MsbFirstPacking ==
  (IsBitmask(last.pre) /\ last.op = "getValue" /\ last.res.ok) =>
    IsPackingOf(last.res.value, last.pre)

\* The packing holds for every bitmask over storage of one or two bytes.
C8_MsbFirstPackingBelow32 ==
  (IsBitmask(last.pre) /\ last.op = "getValue" /\ last.res.ok
     /\ serializedLength(last.pre.wrapperType) < 4) =>
    IsPackingOf(last.res.value, last.pre)

\* r = g = b = 1 over r:3, g:3, b:2 packs to 0b00100101.
C8_Witness ==
  /\ IsBitmask(last.pre) /\ last.op = "getValue" /\ last.res.ok
  /\ Len(getSBitfieldSpecs(last.pre)) = 3
  /\ last.res.value = 37

\* C9: for a bitmask whose bit-lengths add up to the storage width,
\* assigning value := v and reading value yields v, and deserializing the
\* bytes of v and serializing yields those bytes.
C9_SetterInverse ==
  /\ (IsBitmask(last.pre) /\ last.op = "setValue" /\ last.res.ok) =>
       /\ SBitmask_getValue(obj).ok
       /\ SBitmask_getValue(obj).value = last.newValue
  /\ (IsBitmask(last.pre) /\ last.op = "deserialize" /\ last.res.ok) =>
       /\ serialize(obj, last.opts).ok
       /\ serialize(obj, last.opts).buf = SubSeq(last.buffer, 1, last.res.n)

\* The setter is the inverse of the getter over storage of one or two bytes
\* when every boolean field is one bit long.
C9_SetterInverseOneBitFlags ==
  (/\ IsBitmask(last.pre) /\ last.op = "deserialize" /\ last.res.ok
   /\ serializedLength(last.pre.wrapperType) < 4
   /\ \A i \in 1..Len(getSBitfieldSpecs(obj)) :
        obj.props[getSBitfieldSpecs(obj)[i].propertyKey].type = "boolean"
          => getSBitfieldSpecs(obj)[i].length = 1) =>
    /\ serialize(obj, last.opts).ok
    /\ serialize(obj, last.opts).buf = SubSeq(last.buffer, 1, last.res.n)

\* C10: on a bitmask whose bit-lengths do not add up to the storage width,
\* serialize, deserialize of a buffer that holds the storage,
\* getSerializedLength, reading value and assigning value each fail with
\* the bit-length error.
C10_MismatchRejected ==
  (/\ IsBitmask(last.pre) /\ ~LengthsMatch(last.pre)
   /\ last.op \in {"serialize", "deserialize", "getSerializedLength",
                   "getValue", "setValue"}
   /\ last.op = "deserialize" =>
        Len(last.buffer) >= serializedLength(last.pre.wrapperType)) =>
    /\ ~last.res.ok
    /\ last.res.err = BitLengthError

\* The same without getSerializedLength, which returns the storage width.
C10_MismatchRejectedButSize ==
  (/\ IsBitmask(last.pre) /\ ~LengthsMatch(last.pre)
   /\ last.op \in {"serialize", "deserialize", "getSerializedLength",
                   "getValue", "setValue"}
   /\ last.op = "deserialize" =>
        Len(last.buffer) >= serializedLength(last.pre.wrapperType)) =>
    IF last.op = "getSerializedLength"
    THEN last.res = [ok |-> TRUE, len |-> serializedLength(last.pre.wrapperType)]
    ELSE ~last.res.ok /\ last.res.err = BitLengthError

\* serialize of a bitmask whose bit-lengths add up and whose properties are
\* numbers and booleans.
PacksProperties ==
  /\ IsBitmask(last.pre)
  /\ last.op = "serialize"
  /\ LengthsMatch(last.pre)
  /\ \A k \in DOMAIN last.pre.props : last.pre.props[k].type \in {"number", "boolean"}

\* The number the storage codec reads back from the serialized bytes, and
\* the bits of it in the slot of the field at position i.
PackedNumber == Scalar_deserialize(NewScalar(last.pre.wrapperType), last.res.buf).obj.value
SlotOf(v, o, i) == (v \div Pow2(OffsetOf(o, i))) % Pow2(getSBitfieldSpecs(o)[i].length)

\* C11 as stated: serialize never fails for a field value that exceeds its
\* bit-length, and a 3-bit field holding 31 serializes as 3 in its slot.
C11_Masked3BitIs3 ==
  PacksProperties =>
    /\ last.res.ok
    /\ \A i \in 1..Len(getSBitfieldSpecs(last.pre)) :
         (/\ getSBitfieldSpecs(last.pre)[i].length = 3
          /\ last.pre.props[getSBitfieldSpecs(last.pre)[i].propertyKey] = Number(31))
           => SlotOf(PackedNumber, last.pre, i) = 3

\* C11, amended: over storage of one or two bytes serialize never fails for
\* a field value that exceeds its bit-length, and the slot of each field
\* holds the field value modulo 2^length (7 for a 3-bit field holding 31,
\* 3 for a 2-bit field holding 31).
C11_MaskedToLength ==
  (PacksProperties /\ serializedLength(last.pre.wrapperType) < 4) =>
    /\ last.res.ok
    /\ \A i \in 1..Len(getSBitfieldSpecs(last.pre)) :
         SlotOf(PackedNumber, last.pre, i)
           = OrZero(last.pre.props[getSBitfieldSpecs(last.pre)[i].propertyKey])
               % Pow2(getSBitfieldSpecs(last.pre)[i].length)

\* Reached: r:3, g:3, b:2 with r = 31 and b = 31 serialized with 7 in the
\* slot of r and 3 in the slot of b.
C11_Witness ==
  /\ PacksProperties
  /\ last.res.ok
  /\ Len(getSBitfieldSpecs(last.pre)) = 3
  /\ getSBitfieldSpecs(last.pre)[1].length = 3
  /\ getSBitfieldSpecs(last.pre)[3].length = 2
  /\ last.pre.props[getSBitfieldSpecs(last.pre)[1].propertyKey] = Number(31)
  /\ last.pre.props[getSBitfieldSpecs(last.pre)[3].propertyKey] = Number(31)
  /\ SlotOf(PackedNumber, last.pre, 1) = 7
  /\ SlotOf(PackedNumber, last.pre, 3) = 3

\* The JSON of a number or a boolean held by a property.
JSONOfProperty(v) ==
  IF v.type = "boolean" THEN JBool(v.bool)
  ELSE IF v.type = "number" THEN JNum(v.num) ELSE JNull

\* The own properties of bitmask o: its bitfields and its plain properties.
OwnProperties(o) == DOMAIN o.props \cup DOMAIN o.plain

\* C12: toJSON of a bitmask has a key for every own property that is not
\* marked @json(false) and for every property marked @json(true), and no
\* other key; the value of an own property is the JSON of what it holds.
C12_JSONRulesOfRecords ==
  (IsBitmask(last.pre) /\ last.op = "toJSON") =>
    /\ last.res.ok
    /\ {last.res.json.keys[i] : i \in 1..Len(last.res.json.keys)}
         = (OwnProperties(last.pre) \ last.pre.excluded) \cup last.pre.included
    /\ \A k \in DOMAIN last.pre.props \ last.pre.excluded :
         last.res.json.vals[k] = JSONOfProperty(last.pre.props[k])
    /\ \A k \in DOMAIN last.pre.plain \ last.pre.excluded :
         last.res.json.vals[k] = last.pre.plain[k]

----------------------------------------------------------------------------
(* Properties of records.                                                  *)

\* An operation of a record failed.
RecordFailed ==
  /\ last.pre.cls = "SObject"
  /\ last.op \in {"serialize", "deserialize", "getSerializedLength", "toJSON"}
  /\ ~last.res.ok

\* The error of the last operation is the field error of the field at
\* position k (from 1): it names the field, and its cause is the error the
\* value of the field threw.
IsFieldErrorOf(k) ==
  /\ ~ElementResult(k - 1).ok
  /\ last.res.err.name = "SObjectError"
  /\ last.res.err.propertyKey = getFieldSpecs(last.pre)[k].propertyKey
  /\ last.res.err.cause = ElementResult(k - 1).err

\* C3: when serialize, deserialize, getSerializedLength or toJSON of a
\* record fails, the error is an SObjectError with the name of a registered
\* field whose value throws and with the error that value threw as cause,
\* for a nested record the SObjectError of the inner record; serialize,
\* deserialize and getSerializedLength report the first such field.
C3_FieldError ==
  RecordFailed =>
    \E k \in 1..Len(getFieldSpecs(last.pre)) :
      /\ IsFieldErrorOf(k)
      /\ last.op # "toJSON" => \A j \in 1..(k - 1) : ElementResult(j - 1).ok

\* The same, but for toJSON of a record with a field defined by a getter
\* and marked @json(true), which throws the error of the value as it is.
C3_FieldErrorOfOwnProperties ==
  (RecordFailed /\ ~(last.op = "toJSON" /\ FieldNames(last.pre) \ DOMAIN last.pre.props # {})) =>
    \E k \in 1..Len(getFieldSpecs(last.pre)) :
      /\ IsFieldErrorOf(k)
      /\ last.op # "toJSON" => \A j \in 1..(k - 1) : ElementResult(j - 1).ok

\* serialize of a record failed in the nested record of its second field.
C3_Witness ==
  /\ RecordFailed
  /\ last.op = "serialize"
  /\ last.res.err.propertyKey = "inner"
  /\ last.res.err.cause.name = "SObjectError"
  /\ last.res.err.cause.propertyKey = "prop2"
  /\ last.res.err.cause.cause = Error(<<"test error">>)

\* toJSON of a record returned.
RecordJSON ==
  /\ last.pre.cls = "SObject"
  /\ last.op = "toJSON"
  /\ last.res.ok

\* The set of the elements of a sequence.
Range(q) == {q[i] : i \in 1..Len(q)}

\* C13: the keys of the JSON of a record are its own enumerable properties
\* without the names marked @json(false), and the names marked @json(true);
\* whether a property is a registered field plays no part; the value of
\* every registered field with a wrapper is the JSON of its wrapper.
C13_JSONKeysAndWrappers ==
  RecordJSON =>
    /\ Range(last.res.json.keys) =
         (DOMAIN last.pre.props \ last.pre.excluded) \cup Range(last.pre.included)
    /\ \A k \in Range(last.res.json.keys) \cap WrappedFieldNames(last.pre) :
         last.res.json.vals[k] = toJSON(SerializableField(last.pre, k)).json

\* assignJSON of a record was called, with a JSON object or with any value.
RecordAssigned ==
  /\ last.pre.cls = "SObject"
  /\ last.op = "assignJSON"
RecordMerged == RecordAssigned /\ last.json.j = "obj"

\* The own properties of o that hold a nested record.
NestedRecords(o) ==
  {k \in DOMAIN o.props \ WrappedFieldNames(o) : o.props[k].cls = "SObject"}

C15_NonObjectRejected ==
  (RecordAssigned /\ last.json.j # "obj") =>
    /\ ~last.res.ok
    /\ last.res.err = Error(<<"Expected object in SObject.assignJSON(), got ",
                              typeof(last.json)>>)
    /\ obj = last.pre

\* The properties of two records are the same.  They are compared as
\* written, because a field may hold a number in one record and a wrapper
\* in the other.
SameProperties(a, b) == ToString(a.props) = ToString(b.props)

\* C16: r.assignSerializableMap(r.toSerializableMap()) returns and leaves
\* every field of r with its previous value, a field with a wrapper with the
\* unwrapped value; a map with a key that names no registered field raises
\* the error of that field.
C16_MapRoundTrip ==
  (last.pre.cls = "SObject" /\ last.op = "assignSerializableMap") =>
    /\ last.map = SObject_toSerializableMap(last.pre) =>
         (last.res.ok /\ SameProperties(obj, last.pre))
    /\ Range(last.map.keys) \ FieldNames(last.pre) # {} =>
         /\ ~last.res.ok
         /\ last.res.err.name = "SObjectError"
         /\ last.res.err.propertyKey \in Range(last.map.keys) \ FieldNames(last.pre)

----------------------------------------------------------------------------
(* Properties of enums.                                                    *)

\* The label names of an enum and the label of a number.
Labels(enumType) == {k \in DOMAIN enumType : enumType[k].j = "num"}
HasLabel(enumType, n) == \E k \in Labels(enumType) : enumType[k] = JNum(n)
LabelOf(enumType, n) == CHOOSE k \in Labels(enumType) : enumType[k] = JNum(n)

\* C17: toJSON of an enum holding an integer returns the label of the
\* integer, or the integer when it has no label; assignJSON of a number
\* assigns it; assignJSON of a string that is a label name assigns the
\* integer of the label, and of any other string fails with the error of
\* an invalid label and leaves the value as it was; after every successful
\* assignJSON the value held is an integer.
C17_EnumJSON ==
  last.pre.cls = "enum" =>
    /\ (last.op = "toJSON" /\ last.pre.value.j = "num") =>
         /\ last.res.ok
         /\ last.res.json =
              IF HasLabel(last.pre.enumType, last.pre.value.num)
              THEN JStr(LabelOf(last.pre.enumType, last.pre.value.num))
              ELSE last.pre.value
    /\ last.op = "assignJSON" =>
         /\ last.json.j = "num" => (last.res.ok /\ obj.value = last.json)
         /\ (last.json.j = "str" /\ last.json.str \in Labels(last.pre.enumType)) =>
              (last.res.ok /\ obj.value = last.pre.enumType[last.json.str])
         /\ (last.json.j = "str" /\ last.json.str \notin Labels(last.pre.enumType)) =>
              /\ ~last.res.ok
              /\ last.res.err = InvalidLabelError(last.json)
              /\ obj = last.pre
         /\ last.res.ok => obj.value.j = "num"

----------------------------------------------------------------------------
(* Properties of strings.                                                  *)

\* The last operation was op of a string of class cls, fixed or not, under
\* an encoding that exists.
StringOp(op, cls, fixed) ==
  /\ last.op = op
  /\ last.pre.cls = cls
  /\ last.pre.hasLength = fixed
  /\ getEncodingOrDefault(last.opts).ok

\* The encoding of the text the string held.
Encoded == encodeString(last.pre.value, last.opts).buf

\* buf is the first n bytes of data, followed by zero bytes only.
IsPadded(buf, data, n) ==
  /\ n <= Len(buf)
  /\ n <= Len(data)
  /\ \A i \in 1..Len(buf) : buf[i] = IF i <= n THEN data[i] ELSE 0

\* C18: for SStringNT.ofLength(N) with any N from 0 on, getSerializedLength
\* returns N and serialize returns N bytes: the first bytes of the encoded
\* text, at most N - 1 of them, followed only by zero bytes.
C18_FixedNTIsNBytes ==
  /\ (last.op = "getSerializedLength" /\ last.pre.cls = "SStringNT" /\ last.pre.hasLength) =>
       last.res = [ok |-> TRUE, len |-> last.pre.length]
  /\ StringOp("serialize", "SStringNT", TRUE) =>
       /\ last.res.ok
       /\ Len(last.res.buf) = last.pre.length
       /\ IsPadded(last.res.buf, Encoded, Min(Len(Encoded), Max(last.pre.length - 1, 0)))

\* The place of the first zero byte of a buffer that has one.
HasZero(buffer) == \E i \in 1..Len(buffer) : buffer[i] = 0
FirstZero(buffer) ==
  CHOOSE i \in 1..Len(buffer) : buffer[i] = 0 /\ \A j \in 1..(i - 1) : buffer[j] # 0

\* C19: deserialize of a dynamically sized SStringNT, given a buffer with a
\* zero byte, sets the value to the decoding of the bytes before the first
\* zero byte and returns the number of bytes up to and including it;
\* serialize returns the encoded text followed by one zero byte.
C19_DynamicNTStopsAtZero ==
  /\ (StringOp("deserialize", "SStringNT", FALSE) /\ HasZero(last.buffer)) =>
       /\ last.res.ok
       /\ last.res.n = FirstZero(last.buffer)
       /\ obj.value = decodeString(SubSeq(last.buffer, 1, FirstZero(last.buffer) - 1),
                                   last.opts).str
  /\ StringOp("serialize", "SStringNT", FALSE) =>
       last.res = [ok |-> TRUE, buf |-> Encoded \o <<0>>]

\* deserialize of 'c', a zero byte and 't' gave 'c' and returned 2.
C19_Witness ==
  /\ StringOp("deserialize", "SStringNT", FALSE)
  /\ last.buffer = <<99, 0, 116>>
  /\ obj.value = <<99>>
  /\ last.res.n = 2

\* C20: for SString.ofLength(N), serialize returns N bytes, the encoded
\* text cut to N bytes and padded with zero bytes; deserialize of a buffer
\* of at least N bytes decodes its first N bytes, zero bytes included,
\* and returns N.
C20_FixedStringIsNBytes ==
  /\ StringOp("serialize", "SString", TRUE) =>
       /\ last.res.ok
       /\ Len(last.res.buf) = last.pre.length
       /\ IsPadded(last.res.buf, Encoded, Min(Len(Encoded), last.pre.length))
  /\ (StringOp("deserialize", "SString", TRUE) /\ Len(last.buffer) >= last.pre.length) =>
       /\ last.res.ok
       /\ last.res.n = last.pre.length
       /\ obj.value = decodeString(SubSeq(last.buffer, 1, last.pre.length), last.opts).str

----------------------------------------------------------------------------
(* Properties of the interface as a whole.                                 *)

\* C2: whenever serialize(opts) returns, the number of bytes it returned is
\* what getSerializedLength(opts) returns on the same instance, under the
\* same options and default encoding.
C2_LengthMatchesSerialize ==
  (last.op = "serialize" /\ last.res.ok) =>
    getSerializedLength(last.pre, last.opts) =
      [ok |-> TRUE, len |-> Len(last.res.buf)]

\* Reached: a dynamically sized SStringNT holding e-acute serialized to two
\* bytes of UTF-8 and the NUL.
C2_Witness ==
  /\ last.op = "serialize"
  /\ last.res.ok
  /\ last.pre.cls = "SStringNT"
  /\ ~Truthy(last.pre)
  /\ last.pre.value = <<233>>
  /\ Len(last.res.buf) = 3
  /\ getSerializedLength(last.pre, last.opts).len = 3

\* The instance decoded by the round trip shows the JSON of the one that
\* was serialized.
SameJSON ==
  /\ last.res.ok
  /\ last.json.ok
  /\ last.decoded.ok
  /\ last.decoded.json = last.json.json

RECURSIVE FitsBounds(_, _)
\* o needs no truncation: a text fits within the fixed length of its
\* string and a stored sequence within the fixed length of its array, in
\* o and in what it is composed of.
FitsBounds(o, opts) ==
  CASE IsString(o) ->
         Truthy(o) =>
           LET e == encodeString(o.value, opts)
           IN  e.ok /\ Len(e.buf) <= (IF o.cls = "SString" THEN o.length
                                      ELSE o.length - 1)
    [] IsArray(o) \/ o.cls = "SObject" ->
         /\ IsArray(o) /\ o.hasLength => Len(o.value) <= o.length
         /\ \A i \in 1..Len(AsSArray(o).value) : FitsBounds(AsSArray(o).value[i], opts)
    [] OTHER -> TRUE

ClassOf(o) ==
  CASE o.cls = "scalar" -> <<o.cls, o.kind>>
    [] IsString(o) -> <<o.cls, o.hasLength, o.length>>
    [] o.cls = "SDynamicBuffer" -> <<o.cls, o.lengthType>>
    [] o.cls = "SArray" -> <<o.cls, o.hasLength, o.length, o.elementType>>
    [] o.cls = "SArrayWithWrapper" -> <<o.cls, o.hasLength, o.length, o.wrapperType>>
    [] o.cls = "SObject" ->
         <<o.cls, o.fieldSpecs, o.keys, o.accessors, o.included, o.excluded>>
    [] o.cls = "SBitmask" -> <<o.cls, o.wrapperType, o.bitfields>>
    [] OTHER -> <<o.cls>>

RECURSIVE SelfDelimiting(_)
\* The encoding of o ends by itself: o does not decode all the bytes it is
\* given, whatever follows its own.
SelfDelimiting(o) ==
  CASE o.cls = "SString" -> Truthy(o)
    [] o.cls = "SBuffer" -> FALSE
    [] IsArray(o) ->
         /\ o.hasLength
         /\ o.length > 0 => SelfDelimiting(IF o.cls = "SArray" THEN o.elementType
                                           ELSE o.wrapperType)
    [] o.cls = "SObject" ->
         \A i \in 1..Len(toSArray(o).value) : SelfDelimiting(toSArray(o).value[i])
    [] OTHER -> TRUE

\* All the elements but the last are self-delimiting.
Delimited(elements) ==
  \A i \in 1..(Len(elements) - 1) : SelfDelimiting(elements[i])

RECURSIVE IsExact(_, _, _)
\* The bytes o serializes to under opts hold all that its JSON shows, and a
\* new instance `fresh` finds it there:
\*   - fresh is of the class of o;
\*   - a text decodes from its encoding to itself, has no zero byte in its
\*     encoding and leaves room for the NUL in an SStringNT, and fills a
\*     fixed-length SString exactly;
\*   - an array has a fixed length, each element it shows is exact, and all
\*     but the last are self-delimiting;
\*   - a record holds its fields as own properties, each exact and all but
\*     the last self-delimiting, and its other properties as constructed;
\*   - a bitmask holds in each numeric field a number of its bit length.
IsExact(o, fresh, opts) ==
  /\ ClassOf(o) = ClassOf(fresh)
  /\ CASE o.cls = "scalar" -> serialize(o, opts).ok
       [] IsString(o) ->
            LET e == encodeString(o.value, opts)
            IN  /\ e.ok
                /\ decodeString(e.buf, opts).str = o.value
                /\ o.cls = "SStringNT" => \A i \in 1..Len(e.buf) : e.buf[i] # 0
                /\ Truthy(o) => IF o.cls = "SString" THEN Len(e.buf) = o.length
                                ELSE Len(e.buf) <= o.length - 1
       [] o.cls = "SBuffer" -> TRUE
       [] o.cls = "SDynamicBuffer" -> serialize(o, opts).ok
       [] IsArray(o) ->
            /\ o.hasLength
            /\ Delimited(mapSArrayElements(AsSArray(o)))
            /\ \A i \in 1..o.length :
                 IsExact(mapSArrayElements(AsSArray(o))[i],
                         IF o.cls = "SArray" THEN o.elementType ELSE o.wrapperType,
                         opts)
       [] o.cls = "SObject" ->
            /\ FieldNames(o) \subseteq DOMAIN o.props
            /\ \A k \in DOMAIN o.props \ FieldNames(o) : o.props[k] = fresh.props[k]
            /\ Delimited(toSArray(o).value)
            /\ \A i \in 1..Len(getFieldSpecs(o)) :
                 IsExact(getFieldOrWrapper(o, getFieldSpecs(o)[i]),
                         getFieldOrWrapper(fresh, getFieldSpecs(o)[i]), opts)
       [] o.cls = "SBitmask" ->
            \A i \in 1..Len(getSBitfieldSpecs(o)) :
              LET v == o.props[getSBitfieldSpecs(o)[i].propertyKey]
              IN  \/ v.type = "boolean"
                  \/ /\ v.type = "number"
                     /\ getSBitfieldSpecs(o)[i].length <= 30
                     /\ v.num >= 0
                     /\ v.num < Pow2(getSBitfieldSpecs(o)[i].length)
       [] OTHER -> FALSE

----------------------------------------------------------------------------
(* Properties of the text encoding.                                        *)

\* The encoding the last call resolved: opts.encoding ?? defaultEncoding.
EncodingAtCall ==
  IF last.opts.hasEncoding THEN last.opts.encoding ELSE defaultEncoding

UnknownEncodingError == Error(<<"Unknown text encoding: ", EncodingAtCall>>)

\* The last operation was serialize, deserialize or getSerializedLength
\* under an encoding that does not exist.
UnknownEncodingOp ==
  /\ last.op \in {"serialize", "deserialize", "getSerializedLength"}
  /\ ~encodingExists(EncodingAtCall)

\* C21 as stated: serialize, deserialize and getSerializedLength of a
\* string, or of a record with a string field, under an encoding that does
\* not exist never return a result.
C21_UnknownEncodingAlwaysFails ==
  (UnknownEncodingOp /\ HasText(last.pre)) => ~last.res.ok

\* C21, amended: under an encoding that does not exist, serialize and
\* deserialize of a string throw the unknown-encoding error, as does
\* getSerializedLength of a string whose length is undefined or 0, and the
\* string keeps its value; getSerializedLength of a string of fixed length
\* N >= 1 returns N without resolving the encoding.  serialize and
\* deserialize of a record with a string field never return a result, and
\* the error they attribute to the string field is the unknown-encoding
\* error.
C21_UnknownEncodingFails ==
  /\ (UnknownEncodingOp /\ IsString(last.pre)) =>
       IF last.op = "getSerializedLength" /\ Truthy(last.pre)
       THEN last.res = [ok |-> TRUE, len |-> last.pre.length]
       ELSE /\ ~last.res.ok
            /\ last.res.err = UnknownEncodingError
            /\ obj = last.pre
  /\ (UnknownEncodingOp /\ last.pre.cls = "SObject" /\ HasText(last.pre)
        /\ last.op # "getSerializedLength") =>
       /\ ~last.res.ok
       /\ IsString(SerializableField(last.pre, last.res.err.propertyKey)) =>
            last.res.err.cause = UnknownEncodingError

\* Reached: deserialize of 'A' by an SStringNT.ofLength(3) under 'klingon'
\* threw the unknown-encoding error.
C21_Witness ==
  /\ UnknownEncodingOp
  /\ last.op = "deserialize"
  /\ last.pre.cls = "SStringNT"
  /\ Truthy(last.pre)
  /\ last.buffer = <<65>>
  /\ last.opts = WithEncoding("klingon")
  /\ ~last.res.ok
  /\ last.res.err = UnknownEncodingError

\* What holds of the default encoding in every state: it exists, it is
\* 'utf-8' before any call, a setDefaultEncoding that returned has set it
\* to its argument and one given an encoding that does not exist has thrown;
\* and a dynamically sized string serializes its text in opts.encoding when
\* that is given, and else in the default encoding.
DefaultEncodingInUse ==
  /\ encodingExists(defaultEncoding)
  /\ last.op = "new" => defaultEncoding = "utf-8"
  /\ last.op = "setDefaultEncoding" =>
       IF encodingExists(last.encoding)
       THEN last.res.ok /\ defaultEncoding = last.encoding
       ELSE /\ ~last.res.ok
            /\ last.res.err = Error(<<"Unknown text encoding: ", last.encoding>>)
  /\ (last.op = "serialize" /\ IsString(last.pre) /\ ~Truthy(last.pre)
        /\ encodingExists(EncodingAtCall)) =>
       /\ last.res.ok
       /\ last.res.buf = iconv_encode(last.pre.value, EncodingAtCall)
                           \o (IF last.pre.cls = "SStringNT" THEN <<0>> ELSE <<>>)

\* A step that changes the default encoding is a setDefaultEncoding that
\* returned.
DefaultEncodingStep ==
  (defaultEncoding' # defaultEncoding) => (last'.op = "setDefaultEncoding" /\ last'.res.ok)

----------------------------------------------------------------------------
(* Properties of buffers.                                                  *)

\* C22: deserialize of an SBuffer sets the value to all the bytes of the
\* input and returns their number, serialize returns the bytes held, and a
\* byte the caller then writes into the input or into the Buffer returned
\* leaves the value of the SBuffer as it was.
C22_NoSharedStorage ==
  /\ (last.op = "deserialize" /\ last.pre.cls = "SBuffer") =>
       /\ last.res.ok
       /\ last.res.n = Len(last.buffer)
       /\ obj.value = last.buffer
  /\ (last.op = "serialize" /\ last.pre.cls = "SBuffer") =>
       last.res = [ok |-> TRUE, buf |-> last.pre.value]
  /\ (last.op = "write" /\ last.pre.cls = "SBuffer") => obj.value = last.pre.value

\* The number of bytes of the length prefix of an SDynamicBuffer, and the
\* length L that the prefix of the last buffer declares.
PrefixSize == serializedLength(last.pre.lengthType)
DeclaredLength == readFn(last.pre.lengthType, last.buffer).value

\* C23: deserialize of an SDynamicBuffer, given at least the bytes of the
\* prefix, sets the value to the L bytes after the prefix and returns the
\* size of the prefix plus L when L bytes follow the prefix, and throws when
\* fewer than L bytes follow it.
C23_ExactlyDeclaredBytes ==
  (last.op = "deserialize" /\ last.pre.cls = "SDynamicBuffer"
     /\ Len(last.buffer) >= PrefixSize) =>
    IF Len(last.buffer) - PrefixSize >= DeclaredLength
    THEN /\ last.res.ok
         /\ last.res.n = PrefixSize + DeclaredLength
         /\ obj.value = SubSeq(last.buffer, PrefixSize + 1, PrefixSize + DeclaredLength)
    ELSE ~last.res.ok

----------------------------------------------------------------------------
(* Properties of the operations that only read.                            *)

ReadOp == last.op \in {"serialize", "getSerializedLength", "toJSON"}

----------------------------------------------------------------------------
(* Properties of the registry.                                             *)

Names(fieldSpecs) == {fieldSpecs[i].propertyKey : i \in 1..Len(fieldSpecs)}

\* The field list that instances of the class of the last call use, before
\* and after the call.
ListBefore == getFieldSpecsOf(last.pre.protos, last.type)
ListAfter == getFieldSpecsOf(obj.protos, last.type)

IsPrefix(p, q) == Len(p) <= Len(q) /\ SubSeq(q, 1, Len(p)) = p

\* Each name is once in the field list, the name index and the name set
\* hold the names of the list, the index gives for each name its entry of
\* the list, and no name is both included in and excluded from JSON.
WellFormed(metadata) ==
  /\ \A i, j \in 1..Len(metadata.fieldSpecs) :
       metadata.fieldSpecs[i].propertyKey = metadata.fieldSpecs[j].propertyKey => i = j
  /\ DOMAIN metadata.fieldSpecMap = Names(metadata.fieldSpecs)
  /\ metadata.propertyKeys = Names(metadata.fieldSpecs)
  /\ \A i \in 1..Len(metadata.fieldSpecs) :
       metadata.fieldSpecMap[metadata.fieldSpecs[i].propertyKey] = metadata.fieldSpecs[i]
  /\ metadata.jsonIncludedPropertyKeys \cap metadata.jsonExcludedPropertyKeys = {}

\* The last JSON-setting registration names a property that the metadata
\* held with the opposite setting.
Conflicts ==
  LET metadata == getSObjectMetadata(last.pre.protos, last.type)
  IN  /\ metadata.defined
      /\ last.propertyKey \in (IF last.shouldIncludeInJson
                                THEN metadata.jsonExcludedPropertyKeys
                                ELSE metadata.jsonIncludedPropertyKeys)

\* C25: the metadata of every prototype is well-formed; registering a name
\* that the field list holds changes nothing, and registering a new name
\* appends it with the wrapper given, so the list is in the order of first
\* registration with the wrappers of first registration, also through the
\* registrations that constructing an instance repeats; a JSON-setting
\* registration that conflicts with the setting held throws and changes
\* nothing, and any other records the setting and leaves the field list.
C25_RegistryWellFormed ==
  /\ \A t \in RegistryClasses : obj.protos[t].defined => WellFormed(obj.protos[t])
  /\ last.op = "registerField" =>
       IF last.fieldSpec.propertyKey \in Names(ListBefore)
       THEN obj = last.pre
       ELSE ListAfter = Append(ListBefore, last.fieldSpec)
  /\ last.op = "newInstance" =>
       /\ IsPrefix(ListBefore, ListAfter)
       /\ last.res.ok => Names(ListAfter) = Names(ListBefore) \cup DeclaredFields(last.type)
  /\ last.op = "registerFieldJsonSetting" =>
       IF Conflicts
       THEN ~last.res.ok /\ obj = last.pre
       ELSE /\ last.res.ok
            /\ ListAfter = ListBefore
            /\ last.propertyKey \in
                 (IF last.shouldIncludeInJson
                  THEN getSObjectMetadata(obj.protos, last.type).jsonIncludedPropertyKeys
                  ELSE getSObjectMetadata(obj.protos, last.type).jsonExcludedPropertyKeys)

\* Reached: x, registered for PointA with SUInt8 by the construction of an
\* instance, was registered again without a wrapper, and the field list of
\* PointA still holds x once, with SUInt8.
C25_Witness ==
  /\ last.op = "registerField"
  /\ last.type = "PointA"
  /\ last.fieldSpec = FieldSpec("x")
  /\ ListBefore = <<WrappedFieldSpec("x", SUInt8)>>
  /\ ListAfter = <<WrappedFieldSpec("x", SUInt8)>>
  /\ "x" \in getSObjectMetadata(obj.protos, "PointA").jsonExcludedPropertyKeys

\* C26: the field list that instances of a class use holds only names that
\* the class or its ancestors declare, and after an instance of the class
\* was constructed it holds all of them, whichever classes were
\* instantiated before; so the fields that a subclass adds are never in
\* the field list of its parent.
C26_RegistryPerType ==
  /\ \A t \in RegistryClasses :
       Names(getFieldSpecsOf(obj.protos, t)) \subseteq DeclaredFields(t)
  /\ (last.op = "newInstance" /\ last.res.ok) => Names(ListAfter) = DeclaredFields(last.type)

----------------------------------------------------------------------------
(* Properties of the number of bytes read.                                 *)

\* C27: whenever deserialize returns, the number it returns is at least 0
\* and at most the length of the buffer it was given.
C27_ReadWithinBuffer ==
  (last.op = "deserialize" /\ last.res.ok) =>
    (0 <= last.res.n /\ last.res.n <= Len(last.buffer))

----------------------------------------------------------------------------
(* Properties of a record whose deserialize throws.                        *)

\* C28: when deserialize of a record throws, every own property that holds
\* the value of a field registered with a wrapper holds the value it held
\* before the call.
C28_NoWriteBackOnFailure ==
  (last.op = "deserialize" /\ last.pre.cls = "SObject" /\ ~last.res.ok) =>
    \A k \in WrappedProperties(last.pre) : obj.props[k] = last.pre.props[k]

----------------------------------------------------------------------------
(* Properties of bitmasks over 32-bit storage.                             *)

\* A bitmask over SUInt32BE or SUInt32LE whose bit-lengths add up to 32
\* and whose properties are numbers and booleans.
IsBitmask32(this) ==
  /\ this.cls = "SBitmask"
  /\ this.wrapperType \in {"SUInt32BE", "SUInt32LE"}
  /\ validateLength(getSBitfieldSpecs(this), 4)
  /\ \A k \in DOMAIN this.props : getValueType(this, k).ok

\* C30: over 32-bit storage the value getter returns a number that is not
\* negative, so that serialize returns, and after deserialize the number
\* properties are not negative, also with bit 31 set and with one bitfield
\* of 32 bits.
C30_Unsigned32 ==
  /\ (last.op = "getValue" /\ IsBitmask32(last.pre)) =>
       (last.res.ok /\ last.res.value >= 0)
  /\ (last.op = "serialize" /\ IsBitmask32(last.pre)) => last.res.ok
  /\ (last.op = "deserialize" /\ IsBitmask32(last.pre) /\ last.res.ok) =>
       \A k \in DOMAIN obj.props :
         obj.props[k].type = "number" => obj.props[k].num >= 0

============================================================================
